---------------------------- MODULE RbacProofs ----------------------------
(***************************************************************************)
(* Proofs of the invariants of Rbac.                                       *)
(***************************************************************************)
EXTENDS Rbac, FiniteSetTheorems, TLAPS

-----------------------------------------------------------------------------
(* Lists of instructions *)

\* A loop lists what it does for each element, and nothing else.
LEMMA LoopLists ==
  ASSUME NEW f, IsFiniteSet(DOMAIN f), f = [x \in DOMAIN f |-> f[x]]
  PROVE  ForEach(f) \in Seq(Range(f)) /\ Range(ForEach(f)) = Range(f)
<1> DEFINE S == DOMAIN f
           n == Cardinality(S)
           q == SetToSeq(S)
<1>1. n \in Nat
  BY FS_CardinalityType
<1>2. \E h : h \in Bijection(1..n, S)
  BY FS_CardinalityType DEF ExistsBijection
<1>3. \E h \in [1..n -> S] : IsInjective(h)
  BY <1>2 DEF Bijection, Injection, IsInjective
<1>4. q \in [1..n -> S] /\ IsInjective(q)
  BY <1>3 DEF SetToSeq
<1>5. \A y \in S : \E i \in 1..n : q[i] = y
  <2>1. IsFiniteSet(1..n) /\ Cardinality(1..n) = n
    BY <1>1, FS_Interval
  <2>2. q \in Injection(1..n, S)
    BY <1>4 DEF Injection
  <2>3. q \in Surjection(1..n, S)
    BY <2>1, <2>2, FS_Injection
  <2>4. QED
    BY <2>3 DEF Surjection
<1> HIDE DEF q
<1>6. ForEach(f) = [i \in 1..n |-> f[q[i]]]
  BY <1>4 DEF ForEach, q
<1>7. ForEach(f) \in Seq(Range(f))
  BY <1>1, <1>4, <1>6 DEF Range
<1>8. Range(ForEach(f)) = Range(f)
  BY <1>4, <1>5, <1>6 DEF Range
<1>9. QED
  BY <1>7, <1>8

LEMMA LoopOver ==
  ASSUME NEW S, IsFiniteSet(S), NEW f \in [S -> Instruction]
  PROVE  ForEach(f) \in Seq(Instruction) /\ Range(ForEach(f)) = {f[x] : x \in S}
<1>1. DOMAIN f = S /\ f = [x \in DOMAIN f |-> f[x]]
  OBVIOUS
<1>2. ForEach(f) \in Seq(Range(f)) /\ Range(ForEach(f)) = Range(f)
  BY <1>1, LoopLists
<1>3. Range(f) \subseteq Instruction /\ Range(f) = {f[x] : x \in S}
  BY <1>1 DEF Range
<1>4. ForEach(f) \in Seq(Instruction)
  BY <1>2, <1>3
<1>5. QED
  BY <1>2, <1>3, <1>4

LEMMA Joined ==
  ASSUME NEW s \in Seq(Instruction), NEW t \in Seq(Instruction)
  PROVE  s \o t \in Seq(Instruction) /\ Range(s \o t) = Range(s) \cup Range(t)
<1>1. s \o t \in Seq(Instruction)
  OBVIOUS
<1>2. ASSUME NEW i \in DOMAIN (s \o t)
      PROVE  (s \o t)[i] \in Range(s) \cup Range(t)
  BY DEF Range
<1>3. ASSUME NEW i \in DOMAIN s
      PROVE  s[i] \in Range(s \o t)
  <2>1. i \in DOMAIN (s \o t) /\ (s \o t)[i] = s[i]
    OBVIOUS
  <2>2. QED
    BY <2>1 DEF Range
<1>4. ASSUME NEW i \in DOMAIN t
      PROVE  t[i] \in Range(s \o t)
  <2>1. i + Len(s) \in DOMAIN (s \o t) /\ (s \o t)[i + Len(s)] = t[i]
    OBVIOUS
  <2>2. QED
    BY <2>1 DEF Range
<1>5. QED
  BY <1>1, <1>2, <1>3, <1>4 DEF Range

LEMMA JoinedOrdered ==
  ASSUME NEW s \in Seq(Instruction), NEW t \in Seq(Instruction), Ordered(s), Ordered(t),
         \A x \in Range(s), y \in Range(t) : MayPrecede(x[1], y[1])
  PROVE  Ordered(s \o t)
<1> SUFFICES ASSUME NEW i \in DOMAIN (s \o t), NEW j \in DOMAIN (s \o t), i < j
             PROVE  MayPrecede((s \o t)[i][1], (s \o t)[j][1])
  BY DEF Ordered
<1>1. CASE i \in DOMAIN s /\ j \in DOMAIN s
  BY <1>1 DEF Ordered
<1>2. CASE i \notin DOMAIN s
  <2>1. /\ i - Len(s) \in DOMAIN t /\ j - Len(s) \in DOMAIN t /\ i - Len(s) < j - Len(s)
        /\ (s \o t)[i] = t[i - Len(s)] /\ (s \o t)[j] = t[j - Len(s)]
    BY <1>2
  <2>2. QED
    BY <2>1 DEF Ordered
<1>3. CASE i \in DOMAIN s /\ j \notin DOMAIN s
  <2>1. /\ j - Len(s) \in DOMAIN t
        /\ (s \o t)[i] = s[i] /\ (s \o t)[j] = t[j - Len(s)]
    BY <1>3
  <2>2. s[i] \in Range(s) /\ t[j - Len(s)] \in Range(t)
    BY <1>3, <2>1 DEF Range
  <2>3. QED
    BY <2>1, <2>2
<1>4. QED
  BY <1>1, <1>2, <1>3

LEMMA FreelyOrdered ==
  ASSUME NEW s \in Seq(Instruction), \A x, y \in Range(s) : MayPrecede(x[1], y[1])
  PROVE  Ordered(s)
  BY DEF Ordered, Range

LEMMA One ==
  ASSUME NEW x \in Instruction
  PROVE  << x >> \in Seq(Instruction) /\ Range(<< x >>) = {x} /\ Ordered(<< x >>)
<1>1. DOMAIN << x >> = {1} /\ << x >>[1] = x
  OBVIOUS
<1>2. QED
  BY <1>1 DEF Range, Ordered

LEMMA Two ==
  ASSUME NEW x \in Instruction, NEW y \in Instruction, MayPrecede(x[1], y[1])
  PROVE  << x, y >> \in Seq(Instruction) /\ Range(<< x, y >>) = {x, y} /\ Ordered(<< x, y >>)
<1>1. DOMAIN << x, y >> = {1, 2} /\ << x, y >>[1] = x /\ << x, y >>[2] = y
  OBVIOUS
<1>2. QED
  BY <1>1 DEF Range, Ordered

LEMMA Then ==
  ASSUME NEW s \in Seq(Instruction), Ordered(s), NEW x \in Instruction,
         \A y \in Range(s) : MayPrecede(y[1], x[1])
  PROVE  /\ s \o << x >> \in Seq(Instruction) /\ Ordered(s \o << x >>)
         /\ Range(s \o << x >>) = Range(s) \cup {x}
  BY One, Joined, JoinedOrdered

LEMMA None ==
  << >> \in Seq(Instruction) /\ Range(<< >>) = {} /\ Ordered(<< >>)
  BY DEF Range, Ordered

\* The first instruction of a list and the rest.
LEMMA Split ==
  ASSUME NEW s \in Seq(Instruction), s # << >>
  PROVE  /\ Head(s) \in Instruction /\ Tail(s) \in Seq(Instruction)
         /\ Range(s) = {Head(s)} \cup Range(Tail(s))
         /\ Range(s) \subseteq Instruction /\ Range(Tail(s)) \subseteq Instruction
         /\ Ordered(s) => /\ Ordered(Tail(s))
                          /\ \A y \in Range(Tail(s)) : MayPrecede(Head(s)[1], y[1])
<1>1. /\ Head(s) \in Instruction /\ Tail(s) \in Seq(Instruction) /\ Head(s) = s[1]
      /\ 1 \in DOMAIN s /\ Len(s) > 0
  OBVIOUS
<1>2. \A i \in DOMAIN Tail(s) : i + 1 \in DOMAIN s /\ Tail(s)[i] = s[i + 1]
  BY <1>1
<1>3. \A i \in DOMAIN s : i = 1 \/ (i - 1 \in DOMAIN Tail(s) /\ Tail(s)[i - 1] = s[i])
  BY <1>1
<1>4. Range(s) = {Head(s)} \cup Range(Tail(s))
  <2>1. Range(s) \subseteq {Head(s)} \cup Range(Tail(s))
    BY <1>1, <1>3 DEF Range
  <2>2. {Head(s)} \cup Range(Tail(s)) \subseteq Range(s)
    BY <1>1, <1>2 DEF Range
  <2>3. QED
    BY <2>1, <2>2
<1>5. Range(s) \subseteq Instruction /\ Range(Tail(s)) \subseteq Instruction
  BY <1>1 DEF Range
<1>6. ASSUME Ordered(s)
      PROVE  Ordered(Tail(s)) /\ \A y \in Range(Tail(s)) : MayPrecede(Head(s)[1], y[1])
  <2>1. DOMAIN Tail(s) \subseteq Nat \ {0}
    BY <1>1
  <2>2. Ordered(Tail(s))
    BY <1>2, <1>6, <2>1 DEF Ordered
  <2>3. \A y \in Range(Tail(s)) : MayPrecede(Head(s)[1], y[1])
    BY <1>1, <1>2, <1>6, <2>1 DEF Ordered, Range
  <2>4. QED
    BY <2>2, <2>3
<1>7. QED
  BY <1>1, <1>4, <1>5, <1>6

\* What an instruction is about.
LEMMA Parts ==
  ASSUME NEW x \in Instruction
  PROVE  /\ x[1] \in {"grant", "filterPolicies", "addPolicies"} =>
              x[2] \in Roles /\ x[3] \in SUBSET Permissions
         /\ x[1] \in {"createRole", "dropRole", "seedRole"} => x[2] \in Roles
         /\ x[1] \in {"createUser", "clearRoles", "dropUser", "readRoles", "filterGroupings",
                      "countRoles"} => x[2] \in Users
         /\ x[1] \in {"checkRole", "bind", "unbind", "removeGrouping", "addGrouping"} =>
              x[2] \in Users /\ x[3] \in Roles
         /\ x[1] = "rereadRoles" => x[2] \in SUBSET Roles
         /\ x[1] = "usersOfRole" => x[2] \in Roles /\ x[3] \in Users
         /\ x[1] = "releaseRole" => x[2] \in Roles /\ x[3] \in SUBSET Users /\ x[4] \in Users
         /\ x[1] = "addPolicy" => x[2] \in Roles /\ x[3] \in Endpoints
         /\ x[1] = "removePolicies" => x[2] \in [Roles -> SUBSET Endpoints]
         /\ x[1] = "align" => x[2] \in Users /\ x[3] \in SUBSET Roles
  BY DEF Instruction

LEMMA Instructions ==
  /\ \A name \in {"seedMappings", "seedAdmin", "listRoles", "getPolicy", "listUsers",
                  "synchronised"} :
       <<name>> \in Instruction
  /\ \A name \in {"grant", "filterPolicies", "addPolicies"}, r \in Roles, P \in SUBSET Permissions :
       <<name, r, P>> \in Instruction
  /\ \A name \in {"createRole", "dropRole", "seedRole"}, r \in Roles : <<name, r>> \in Instruction
  /\ \A name \in {"createUser", "clearRoles", "dropUser", "readRoles", "filterGroupings",
                  "countRoles"},
        u \in Users : <<name, u>> \in Instruction
  /\ \A name \in {"checkRole", "bind", "unbind", "removeGrouping", "addGrouping"},
        u \in Users, r \in Roles : <<name, u, r>> \in Instruction
  /\ \A S \in SUBSET Roles : <<"rereadRoles", S>> \in Instruction
  /\ \A r \in Roles, u \in Users : <<"usersOfRole", r, u>> \in Instruction
  /\ \A r \in Roles, S \in SUBSET Users, u \in Users : <<"releaseRole", r, S, u>> \in Instruction
  /\ \A r \in Roles, e \in Endpoints : <<"addPolicy", r, e>> \in Instruction
  /\ \A F \in [Roles -> SUBSET Endpoints] : <<"removePolicies", F>> \in Instruction
  /\ \A u \in Users, S \in SUBSET Roles : <<"align", u, S>> \in Instruction
  BY DEF Instruction

-----------------------------------------------------------------------------
(* One instruction of one list *)

\* The invariant without the lists.
DataOK ==
  /\ role \in [Roles -> {"absent", "live", "deleted"}]
  /\ granted \in [Roles -> SUBSET Permissions]
  /\ user \in [Users -> {"absent", "live", "deleted"}]
  /\ bound \in [Users -> SUBSET Roles]
  /\ p \in [Roles -> SUBSET Endpoints]
  /\ g \in [Users -> SUBSET Roles]
  /\ clean \in BOOLEAN
  /\ NewRolesBare

\* The instruction h is followed by those in T.
Leads(h, T) ==
  /\ h \in Instruction /\ T \subseteq Instruction
  /\ \A y \in T : MayPrecede(h[1], y[1])

\* h may be replaced by the instructions in B.
Keeps(h, B, T) ==
  /\ MakesGood({h} \cup T) => MakesGood(B \cup T)'
  /\ B \cup T # {} /\ SeedsAdmin({h} \cup T) => SeedsAdmin(B \cup T)'

LEMMA RbacInvIsData ==
  ASSUME RbacInv
  PROVE  DataOK /\ todo \in [Processes -> Seq(Instruction)]
  BY DEF RbacInv, RbacTypeOK, DataOK

\* A list that is alone is all there is to come.
LEMMA OnlyOneList ==
  ASSUME RbacInv, Alone, NEW q \in Processes, todo[q] # << >>
  PROVE  /\ Pending = Range(todo[q])
         /\ \A x \in Processes \ {q} : todo[x] = << >>
<1>1. \A x \in Processes \ {q} : todo[x] = << >>
  <2>1. CASE ~Serving
    BY <2>1 DEF RbacInv, Serving, Processes
  <2>2. CASE Serving
    BY <2>2 DEF Serving, Processes, Alone, OneAtATime
  <2>3. QED
    BY <2>1, <2>2
<1>2. \A x \in Processes \ {q} : Range(todo[x]) = {}
  BY <1>1, None
<1>3. QED
  BY <1>1, <1>2 DEF Pending

\* What an instruction that succeeds has to keep.
LEMMA Continues ==
  ASSUME RbacInv, NEW q \in Processes, todo[q] # << >>,
         NEW before \in Seq(Instruction), Continue(q, before), Ordered(before),
         \A x \in Range(before), y \in Range(Tail(todo[q])) : MayPrecede(x[1], y[1]),
         DataOK',
         NEW h, h = Head(todo[q]), NEW T, T = Range(Tail(todo[q])), NEW B, B = Range(before),
         Keeps(h, B, T)
  PROVE  RbacInv'
<1>1. /\ todo \in [Processes -> Seq(Instruction)] /\ todo[q] \in Seq(Instruction)
      /\ Ordered(todo[q])
  BY DEF RbacInv, RbacTypeOK
<1>2. /\ Tail(todo[q]) \in Seq(Instruction) /\ Ordered(Tail(todo[q]))
      /\ Range(todo[q]) = {h} \cup T
  BY <1>1, Split
<1>3. /\ before \o Tail(todo[q]) \in Seq(Instruction)
      /\ Range(before \o Tail(todo[q])) = B \cup T
  BY <1>2, Joined
<1>4. Ordered(before \o Tail(todo[q]))
  BY <1>2, JoinedOrdered
<1>5. /\ todo' \in [Processes -> Seq(Instruction)]
      /\ todo'[q] = before \o Tail(todo[q])
      /\ \A x \in Processes \ {q} : todo'[x] = todo[x]
  BY <1>1, <1>3 DEF Continue
<1>6. RbacTypeOK' /\ NewRolesBare'
  BY <1>5 DEF RbacTypeOK, DataOK
<1>7. \A x \in Processes : Ordered(todo'[x])
  BY <1>4, <1>5 DEF RbacInv
<1>8. Serving' \/ \A x \in Requests : todo'[x] = << >>
  BY <1>5 DEF RbacInv, Serving, Processes
<1>9. Alone' => Alone
  BY <1>5 DEF Alone, Serving, Processes, OneAtATime
<1>10. ASSUME Alone
       PROVE  Pending = {h} \cup T /\ Pending' = B \cup T
  <2>1. /\ Pending = Range(todo[q])
        /\ \A x \in Processes \ {q} : todo[x] = << >>
    BY <1>10, OnlyOneList
  <2>2. /\ Range(todo'[q]) = B \cup T
        /\ \A x \in Processes \ {q} : Range(todo'[x]) = {}
    BY <1>3, <1>5, <2>1, None
  <2>3. QED
    BY <1>2, <2>1, <2>2 DEF Pending
<1>11. Alone' => MakesGood(Pending)'
  <2> SUFFICES ASSUME Alone'
               PROVE  MakesGood(Pending)'
    OBVIOUS
  <2>1. Alone /\ Pending = {h} \cup T /\ Pending' = B \cup T
    BY <1>9, <1>10
  <2>2. MakesGood({h} \cup T)
    BY <2>1 DEF RbacInv
  <2>3. MakesGood(B \cup T)'
    BY <2>2 DEF Keeps
  <2>4. QED
    BY <2>1, <2>3
<1>12. ~Serving' => SeedsAdmin(Pending)'
  <2> SUFFICES ASSUME ~Serving'
               PROVE  SeedsAdmin(Pending)'
    OBVIOUS
  <2>1. q = Startup /\ ~Serving
    BY <1>5 DEF Serving, RbacInv, Processes
  <2>2. Pending = {h} \cup T /\ Pending' = B \cup T
    BY <1>10, <2>1 DEF Alone
  <2>3. B \cup T # {}
    <3>1. before \o Tail(todo[q]) # << >>
      BY <1>5, <2>1 DEF Serving
    <3>2. QED
      BY <1>3, <3>1, Split
  <2>4. SeedsAdmin(B \cup T)'
    BY <2>1, <2>2, <2>3 DEF RbacInv, Keeps
  <2>5. QED
    BY <2>2, <2>4
<1>13. QED
  BY <1>6, <1>7, <1>8, <1>11, <1>12 DEF RbacInv

-----------------------------------------------------------------------------
(* Starts, errors and calls *)

LEMMA Finite ==
  /\ IsFiniteSet(Users) /\ IsFiniteSet(Roles) /\ IsFiniteSet(Endpoints) /\ IsFiniteSet(Preset)
  /\ \A S \in SUBSET Users : IsFiniteSet(S)
  /\ \A S \in SUBSET Roles : IsFiniteSet(S)
  /\ \A S \in SUBSET Endpoints : IsFiniteSet(S)
  BY SeedAssumption, FS_Subset

LEMMA BootList ==
  /\ Boot \in Seq(Instruction) /\ Boot # << >> /\ Ordered(Boot)
  /\ Range(Boot) = {<<"seedRole", r>> : r \in Preset}
       \cup {<<"seedMappings">>, <<"seedAdmin">>, <<"checkRole", Admin, Super>>, <<"listRoles">>}
<1> DEFINE f == [r \in Preset |-> <<"seedRole", r>>]
           roles == ForEach(f)
           seeds == << <<"seedMappings">>, <<"seedAdmin">> >>
           admin == <<"checkRole", Admin, Super>>
           last == <<"listRoles">>
<1>1. roles \in Seq(Instruction) /\ Range(roles) = {<<"seedRole", r>> : r \in Preset}
  <2>1. f \in [Preset -> Instruction]
    BY SeedAssumption, Instructions
  <2>2. roles \in Seq(Instruction) /\ Range(roles) = {f[r] : r \in Preset}
    BY <2>1, Finite, LoopOver
  <2>3. QED
    BY <2>2
<1>2. Ordered(roles)
  BY <1>1, FreelyOrdered DEF MayPrecede, IamOps, PolicyOps, Closing, Leading
<1>3. /\ seeds \in Seq(Instruction) /\ Range(seeds) = {<<"seedMappings">>, <<"seedAdmin">>}
      /\ Ordered(seeds)
  BY Instructions, Two DEF MayPrecede, IamOps, PolicyOps, Closing, Leading
<1>4. admin \in Instruction /\ last \in Instruction
  BY SeedAssumption, Instructions
<1>5. Boot = ((roles \o seeds) \o << admin >>) \o << last >>
  BY DEF Boot, Assign, Sync
<1> HIDE DEF roles, seeds
<1>6. /\ roles \o seeds \in Seq(Instruction) /\ Ordered(roles \o seeds)
      /\ Range(roles \o seeds) = {<<"seedRole", r>> : r \in Preset}
                                   \cup {<<"seedMappings">>, <<"seedAdmin">>}
  <2>1. \A x \in Range(roles), y \in Range(seeds) : MayPrecede(x[1], y[1])
    BY <1>1, <1>3 DEF MayPrecede, IamOps, PolicyOps, Closing, Leading
  <2>2. QED
    BY <1>1, <1>2, <1>3, <2>1, Joined, JoinedOrdered
<1> DEFINE most == (roles \o seeds) \o << admin >>
<1>7. most \in Seq(Instruction) /\ Ordered(most) /\ Range(most) = Range(roles \o seeds) \cup {admin}
  <2>1. \A x \in Range(roles \o seeds) : MayPrecede(x[1], admin[1])
    BY <1>6 DEF MayPrecede, IamOps, PolicyOps, Closing, Leading
  <2>2. QED
    BY <1>4, <1>6, <2>1, Then
<1> HIDE DEF most
<1>8. Boot \in Seq(Instruction) /\ Ordered(Boot) /\ Range(Boot) = Range(most) \cup {last}
  <2>1. \A x \in Range(most) : MayPrecede(x[1], last[1])
    BY <1>6, <1>7 DEF MayPrecede, IamOps, PolicyOps, Closing, Leading
  <2>2. Boot = most \o << last >>
    BY <1>5 DEF most
  <2>3. QED
    BY <1>4, <1>7, <2>1, <2>2, Then
<1>9. Boot # << >>
  BY <1>8, None
<1>10. QED
  BY <1>6, <1>7, <1>8, <1>9

LEMMA BootMakesGood ==
  MakesGood(Range(Boot)) /\ SeedsAdmin(Range(Boot))
<1> DEFINE I == Range(Boot)
<1>1. /\ \A x \in I : x[1] \in {"seedRole", "seedMappings", "seedAdmin", "checkRole", "listRoles"}
      /\ <<"listRoles">> \in I /\ <<"seedMappings">> \in I /\ <<"seedAdmin">> \in I
      /\ <<"checkRole", Admin, Super>> \in I /\ <<"seedRole", Super>> \in I
  BY BootList, SeedAssumption
<1> HIDE DEF I
<1>2. GrantsFollowed(I) /\ ReplacementsRight(I) /\ ChangesFollowed(I) /\ DeletionsSpare(I)
        /\ AlignmentsRight(I)
  BY <1>1 DEF GrantsFollowed, ReplacementsRight, ChangesFollowed, DeletionsSpare, AlignmentsRight
<1>3. ProjectionDue(I)
  BY <1>1 DEF ProjectionDue, PoliciesRebuilt, GroupingsRebuilt
<1>4. SeedsAdmin(I)
  BY <1>1 DEF SeedsAdmin, Synchronises, StartOps
<1>5. QED
  BY <1>2, <1>3, <1>4 DEF MakesGood, I

LEMMA BootMakesGoodNext ==
  MakesGood(Range(Boot))' /\ SeedsAdmin(Range(Boot))'
  BY BootMakesGood, PTL

\* A server that has just been started.
LEMMA Starts ==
  ASSUME DataOK', todo' = [q \in Processes |-> IF q = Startup THEN Boot ELSE << >>]
  PROVE  RbacInv'
<1>1. /\ Startup \in Processes /\ Startup \notin Requests
      /\ todo'[Startup] = Boot /\ \A q \in Processes \ {Startup} : todo'[q] = << >>
  BY SeedAssumption DEF Processes
<1>2. todo' \in [Processes -> Seq(Instruction)]
  BY BootList, None
<1>3. RbacTypeOK' /\ NewRolesBare'
  BY <1>2 DEF RbacTypeOK, DataOK
<1>4. \A q \in Processes : Ordered(todo'[q])
  BY <1>1, BootList, None
<1>5. ~Serving' /\ \A q \in Requests : todo'[q] = << >>
  BY <1>1, BootList DEF Serving, Processes
<1>6. Pending' = Range(Boot)
  <2>1. Range(todo'[Startup]) = Range(Boot) /\ \A q \in Processes \ {Startup} : Range(todo'[q]) = {}
    BY <1>1, None
  <2>2. QED
    BY <1>1, <2>1 DEF Pending
<1>7. MakesGood(Pending)' /\ SeedsAdmin(Pending)'
  BY <1>6, BootMakesGoodNext
<1>8. QED
  BY <1>3, <1>4, <1>5, <1>7 DEF RbacInv

LEMMA InitOK ==
  Init => RbacInv
<1> SUFFICES ASSUME Init
             PROVE  RbacInv
  OBVIOUS
<1>1. /\ Startup \in Processes /\ Startup \notin Requests
      /\ todo[Startup] = Boot /\ \A q \in Processes \ {Startup} : todo[q] = << >>
  BY SeedAssumption DEF Init, Processes
<1>2. todo \in [Processes -> Seq(Instruction)]
  BY BootList, None DEF Init
<1>3. RbacTypeOK /\ NewRolesBare
  BY <1>2 DEF RbacTypeOK, Init, NewRolesBare
<1>4. \A q \in Processes : Ordered(todo[q])
  BY <1>1, BootList, None
<1>5. ~Serving /\ \A q \in Requests : todo[q] = << >>
  BY <1>1, BootList DEF Serving, Processes
<1>6. Pending = Range(Boot)
  <2>1. Range(todo[Startup]) = Range(Boot) /\ \A q \in Processes \ {Startup} : Range(todo[q]) = {}
    BY <1>1, None
  <2>2. QED
    BY <1>1, <2>1 DEF Pending
<1>7. QED
  BY <1>3, <1>4, <1>5, <1>6, BootMakesGood DEF RbacInv

LEMMA SameData ==
  ASSUME DataOK, UNCHANGED <<iam, casbin>>, clean' \in BOOLEAN
  PROVE  DataOK'
  BY DEF DataOK, NewRolesBare, iam, casbin

LEMMA CrashOK ==
  ASSUME RbacInv, Crash
  PROVE  RbacInv'
  BY RbacInvIsData, SameData, Starts DEF Crash

\* Nothing is due after an error, and nothing is left to make it good.
LEMMA NothingDue ==
  ~clean => MakesGood({})
  BY DEF MakesGood, GrantsFollowed, ReplacementsRight, ChangesFollowed, DeletionsSpare,
         AlignmentsRight, ProjectionDue, Synchronises

LEMMA NothingDueNext ==
  ~clean' => MakesGood({})'
  BY NothingDue, PTL

LEMMA AbortOK ==
  ASSUME RbacInv, NEW q \in Processes, todo[q] # << >>, Abort(q)
  PROVE  RbacInv'
<1>1. DataOK' /\ todo \in [Processes -> Seq(Instruction)]
  BY RbacInvIsData, SameData DEF Abort
<1>2. CASE q = Startup
  <2>1. \A x \in Requests : todo[x] = << >>
    BY <1>2 DEF RbacInv, Serving
  <2>2. todo' = [x \in Processes |-> IF x = Startup THEN Boot ELSE << >>]
    BY <1>1, <1>2, <2>1 DEF Abort, Processes
  <2>3. QED
    BY <1>1, <2>2, Starts
<1>3. CASE q # Startup
  <2>1. /\ todo'[q] = << >> /\ \A x \in Processes \ {q} : todo'[x] = todo[x]
        /\ todo' \in [Processes -> Seq(Instruction)]
    BY <1>1, <1>3, None DEF Abort
  <2>2. RbacTypeOK' /\ NewRolesBare'
    BY <1>1, <2>1 DEF RbacTypeOK, DataOK
  <2>3. \A x \in Processes : Ordered(todo'[x])
    BY <2>1, None DEF RbacInv
  <2>4. Serving /\ Serving'
    BY <1>3, <2>1 DEF RbacInv, Serving, Processes
  <2>5. Alone' => MakesGood(Pending)'
    <3> SUFFICES ASSUME Alone'
                 PROVE  MakesGood(Pending)'
      OBVIOUS
    <3>1. Alone
      BY <2>4 DEF Alone, OneAtATime
    <3>2. \A x \in Processes \ {q} : todo[x] = << >>
      BY <3>1, OnlyOneList
    <3>3. \A x \in Processes : Range(todo'[x]) = {}
      BY <2>1, <3>2, None
    <3>4. Pending' = {}
      BY <3>3 DEF Pending
    <3>5. MakesGood({})'
      BY NothingDueNext DEF Abort
    <3>6. QED
      BY <3>4, <3>5
  <2>6. QED
    BY <2>2, <2>3, <2>4, <2>5 DEF RbacInv
<1>4. QED
  BY <1>2, <1>3

\* What a call has to promise.
LEMMA CallOK ==
  ASSUME RbacInv, NEW q \in Requests, NEW op, NEW list \in Seq(Instruction), Call(q, op, list),
         Ordered(list), NEW L, L = Range(list), DataOK /\ MakesGood({}) => MakesGood(L)'
  PROVE  RbacInv'
<1>1. /\ DataOK' /\ DataOK /\ todo \in [Processes -> Seq(Instruction)]
      /\ q \in Processes /\ q # Startup
  BY RbacInvIsData, SameData, SeedAssumption DEF Call, Processes, DataOK
<1>2. /\ todo'[q] = list /\ \A x \in Processes \ {q} : todo'[x] = todo[x]
      /\ todo' \in [Processes -> Seq(Instruction)]
  BY <1>1 DEF Call
<1>3. RbacTypeOK' /\ NewRolesBare'
  BY <1>1, <1>2 DEF RbacTypeOK, DataOK
<1>4. \A x \in Processes : Ordered(todo'[x])
  BY <1>2 DEF RbacInv
<1>5. Serving /\ Serving'
  BY <1>1, <1>2 DEF Serving, Processes, Call
<1>6. Alone' => MakesGood(Pending)'
  <2> SUFFICES ASSUME Alone'
               PROVE  MakesGood(Pending)'
    OBVIOUS
  <2>1. Alone /\ OneAtATime
    BY <1>5 DEF Alone, OneAtATime
  <2>2. \A x \in Processes : todo[x] = << >>
    BY <1>5, <2>1 DEF Call, Serving, Processes, OneAtATime
  <2>3. Pending = {}
    BY <2>2, None DEF Pending
  <2>4. Range(todo'[q]) = L /\ \A x \in Processes \ {q} : Range(todo'[x]) = {}
    BY <1>2, <2>2, None
  <2>5. Pending' = L
    <3>1. \A e : e \in Pending' <=> \E x \in Processes : e \in Range(todo'[x])
      BY DEF Pending
    <3>2. QED
      BY <1>1, <2>4, <3>1
  <2>6. MakesGood({})
    BY <2>1, <2>3 DEF RbacInv
  <2>7. MakesGood(L)'
    BY <1>1, <2>6
  <2>8. QED
    BY <2>5, <2>7
<1>7. QED
  BY <1>3, <1>4, <1>5, <1>6 DEF RbacInv

-----------------------------------------------------------------------------
(* What is due, and what leaves it alone *)

PoliciesDue(I, r) == PoliciesRebuilt(I, r) \/ PoliciesSettled(I, r)

GroupingsDue(I, u) == GroupingsRebuilt(I, u) \/ GroupingsSettled(I, u)

AboutPolicies(x, r) ==
  \/ x[1] \in {"listRoles", "rereadRoles", "getPolicy"}
  \/ x[1] \in {"filterPolicies", "addPolicies", "addPolicy", "dropRole"} /\ x[2] = r
  \/ x[1] = "removePolicies" /\ x[2][r] # {}

AboutGroupings(x, u) ==
  \/ x[1] \in {"listRoles", "listUsers"}
  \/ x[1] \in {"readRoles", "align", "dropUser", "removeGrouping", "addGrouping"} /\ x[2] = u

\* I and J have the same instructions about a role, or a user.
SameForRole(I, J, r) ==
  /\ \A x \in I : x \in J \/ ~AboutPolicies(x, r)
  /\ \A x \in J : x \in I \/ ~AboutPolicies(x, r)

SameForUser(I, J, u) ==
  /\ \A x \in I : x \in J \/ ~AboutGroupings(x, u)
  /\ \A x \in J : x \in I \/ ~AboutGroupings(x, u)

LEMMA PoliciesStay ==
  ASSUME NEW I, NEW J, NEW r \in Roles, SameForRole(I, J, r), PoliciesDue(I, r),
         p'[r] = p[r], role'[r] = role[r], granted'[r] = granted[r]
  PROVE  PoliciesDue(J, r)'
<1>1. PoliciesRebuilt(I, r) => PoliciesRebuilt(J, r)'
  BY DEF PoliciesRebuilt, SameForRole, AboutPolicies
<1>2. ASSUME PoliciesSettled(I, r)
      PROVE  PoliciesSettled(J, r)'
  <2>1. Goal(J, r)' = Goal(I, r)
    BY DEF Goal, SameForRole, AboutPolicies
  <2>2. \A e : (\E x \in I : Adds(x, r, e)) <=> \E x \in J : Adds(x, r, e)
    BY DEF Adds, SameForRole, AboutPolicies
  <2>3. \A e : (\A x \in I : ~Removes(x, r, e)) <=> \A x \in J : ~Removes(x, r, e)
    BY DEF Removes, SameForRole, AboutPolicies
  <2>4. QED
    BY <1>2, <2>1, <2>2, <2>3 DEF PoliciesSettled
<1>3. QED
  BY <1>1, <1>2 DEF PoliciesDue

LEMMA GroupingsStay ==
  ASSUME NEW I, NEW J, NEW u \in Users, SameForUser(I, J, u), GroupingsDue(I, u),
         g'[u] = g[u], LiveRoles(u)' = LiveRoles(u)
  PROVE  GroupingsDue(J, u)'
<1>1. GroupingsRebuilt(I, u) => GroupingsRebuilt(J, u)'
  BY DEF GroupingsRebuilt, SameForUser, AboutGroupings
<1>2. ASSUME GroupingsSettled(I, u)
      PROVE  GroupingsSettled(J, u)'
  <2>1. \A r : (<<"removeGrouping", u, r>> \in I) <=> (<<"removeGrouping", u, r>> \in J)
    BY DEF SameForUser, AboutGroupings
  <2>2. \A r : (<<"addGrouping", u, r>> \in I) <=> (<<"addGrouping", u, r>> \in J)
    BY DEF SameForUser, AboutGroupings
  <2>3. QED
    BY <1>2, <2>1, <2>2 DEF GroupingsSettled
<1>3. QED
  BY <1>1, <1>2 DEF GroupingsDue

LEMMA LiveRolesStay ==
  ASSUME NEW u, bound'[u] = bound[u], \A r \in bound[u] : role'[r] = role[r]
  PROVE  LiveRoles(u)' = LiveRoles(u)
  BY DEF LiveRoles

\* Once IAM is written, only the projection is due.
LEMMA IamBehind ==
  ASSUME NEW J, \A x \in J : x[1] \notin IamOps \cup {"filterGroupings"}
  PROVE  GrantsFollowed(J)' /\ ChangesFollowed(J)' /\ DeletionsSpare(J)'
  BY DEF GrantsFollowed, ChangesFollowed, DeletionsSpare, IamOps

\* An instruction that reads or writes policies or bindings.
LEMMA ProjectionStep ==
  ASSUME NEW h, NEW T, Leads(h, T), h[1] \notin IamOps,
         NEW B, \A x \in B : x[1] \notin IamOps \cup {"filterGroupings"},
         UNCHANGED <<iam, clean>>,
         \A x \in B : x[1] = "filterPolicies" => role[x[2]] = "live" /\ granted[x[2]] = x[3],
         \A x \in B : x[1] = "align" => x[3] = LiveRoles(x[2]),
         Synchronises({h}) <=> Synchronises(B),
         h[1] \in StartOps => \A x \in B : x[1] \in StartOps,
         ReplacementsRight({h} \cup T) =>
           \A r \in Roles : PoliciesDue({h} \cup T, r) => PoliciesDue(B \cup T, r)',
         AlignmentsRight({h} \cup T) /\ ChangesFollowed({h} \cup T) =>
           \A u \in Users : user[u] = "live" /\ GroupingsDue({h} \cup T, u) =>
             GroupingsDue(B \cup T, u)'
  PROVE  Keeps(h, B, T)
<1> DEFINE I == {h} \cup T
           J == B \cup T
<1>1. \A x \in T : x[1] \notin IamOps \cup {"filterGroupings", "align"}
  BY DEF Leads, MayPrecede, Leading, IamOps
<1>2. /\ role' = role /\ granted' = granted /\ user' = user /\ bound' = bound /\ clean' = clean
      /\ \A u : LiveRoles(u)' = LiveRoles(u)
  BY DEF iam, LiveRoles
<1>3. \A x \in I : x[1] \notin IamOps
  BY <1>1
<1>4. Synchronises(I) <=> Synchronises(J)
  BY DEF Synchronises
<1>5. ASSUME MakesGood(I)
      PROVE  MakesGood(J)'
  <2>1. GrantsFollowed(J)' /\ ChangesFollowed(J)' /\ DeletionsSpare(J)'
    <3>1. \A x \in J : x[1] \notin IamOps \cup {"filterGroupings"}
      BY <1>1
    <3> HIDE DEF J
    <3>2. QED
      BY <3>1, IamBehind
  <2>2. ReplacementsRight(J)'
    <3>1. ASSUME NEW x \in J, x[1] = "filterPolicies"
          PROVE  role[x[2]] = "live" /\ granted[x[2]] = x[3]
      BY <1>3, <1>5, <3>1 DEF MakesGood, ReplacementsRight, IamOps
    <3>2. \A y \in J : y[1] # "grant"
      BY <1>1 DEF IamOps
    <3>3. QED
      BY <1>2, <3>1, <3>2 DEF ReplacementsRight
  <2>3. AlignmentsRight(J)'
    BY <1>1, <1>2 DEF AlignmentsRight
  <2>4. ProjectionDue(J)'
    <3> SUFFICES ASSUME clean' \/ Synchronises(J)
                 PROVE  /\ \A r \in Roles : PoliciesDue(J, r)'
                        /\ \A u \in Users : user'[u] = "live" => GroupingsDue(J, u)'
      BY DEF ProjectionDue, PoliciesDue, GroupingsDue, Synchronises
    <3>1. /\ \A r \in Roles : PoliciesDue(I, r)
          /\ \A u \in Users : user[u] = "live" => GroupingsDue(I, u)
      BY <1>2, <1>4, <1>5 DEF MakesGood, ProjectionDue, PoliciesDue, GroupingsDue
    <3>2. ReplacementsRight(I) /\ AlignmentsRight(I) /\ ChangesFollowed(I)
      BY <1>5 DEF MakesGood
    <3>3. QED
      BY <1>2, <3>1, <3>2
  <2>5. QED
    BY <2>1, <2>2, <2>3, <2>4 DEF MakesGood
<1>6. ASSUME J # {}, SeedsAdmin(I)
      PROVE  SeedsAdmin(J)'
  <2>1. Synchronises(J)
    BY <1>4, <1>6 DEF SeedsAdmin
  <2>2. /\ \A x \in J : x[1] \in StartOps /\ (x[1] = "grant" /\ x[2] = Super => x[3] = Permissions)
        /\ role[Super] = "live" /\ user[Admin] = "live"
        /\ granted[Super] = Permissions /\ Super \in bound[Admin]
    BY <1>3, <1>6 DEF SeedsAdmin, IamOps
  <2>3. QED
    BY <1>2, <2>1, <2>2 DEF SeedsAdmin, Synchronises
<1>7. QED
  BY <1>5, <1>6 DEF Keeps

-----------------------------------------------------------------------------
(* Calls of the enforcer, one by one *)

LEMMA PoliciesType ==
  ASSUME NEW P \in SUBSET Permissions
  PROVE  Policies(P) \in SUBSET Endpoints
  BY SeedAssumption DEF Policies

LEMMA OfType ==
  ASSUME NEW r \in Roles, NEW S \in SUBSET Endpoints
  PROVE  /\ Of(r, S) \in [Roles -> SUBSET Endpoints]
         /\ \A x \in Roles : Of(r, S)[x] = IF x = r THEN S ELSE {}
  BY DEF Of

LEMMA First ==
  ASSUME RbacInv, NEW q \in Processes, todo[q] # << >>,
         NEW h, h = Head(todo[q]), NEW T, T = Range(Tail(todo[q]))
  PROVE  Leads(h, T) /\ DataOK
<1>1. todo[q] \in Seq(Instruction) /\ Ordered(todo[q])
  BY RbacInvIsData DEF RbacInv
<1>2. QED
  BY <1>1, RbacInvIsData, Split DEF Leads

LEMMA FilterPoliciesOK ==
  ASSUME RbacInv, NEW q \in Processes, FilterPolicies(q)
  PROVE  RbacInv'
<1>1. PICK h, T : h = Head(todo[q]) /\ T = Range(Tail(todo[q]))
  OBVIOUS
<1>2. todo[q] # << >> /\ h[1] = "filterPolicies"
  BY <1>1 DEF FilterPolicies, At
<1>3. Leads(h, T) /\ DataOK
  BY <1>1, <1>2, First
<1>4. PICK r, P : r = h[2] /\ P = h[3]
  OBVIOUS
<1>5. r \in Roles /\ P \in SUBSET Permissions
  BY <1>2, <1>3, <1>4, Parts DEF Leads
<1>6. PICK x, y : x = <<"removePolicies", Of(r, p[r])>> /\ y = <<"addPolicies", r, P>>
  OBVIOUS
<1>7. Continue(q, << x, y >>) /\ UNCHANGED <<iam, casbin, clean>>
  BY <1>1, <1>4, <1>6 DEF FilterPolicies, Arg
<1>8. x \in Instruction /\ y \in Instruction
  BY <1>3, <1>5, <1>6, OfType, Instructions DEF DataOK
<1> DEFINE B == {x, y}
<1>9. << x, y >> \in Seq(Instruction) /\ Range(<< x, y >>) = B /\ Ordered(<< x, y >>)
  BY <1>6, <1>8, Two DEF MayPrecede, IamOps, PolicyOps, Closing, Leading
<1>10. \A a \in T : MayPrecede(x[1], a[1]) /\ MayPrecede(y[1], a[1])
  BY <1>2, <1>3, <1>6 DEF Leads, MayPrecede, IamOps, PolicyOps, Closing, Leading
<1>11. Keeps(h, B, T)
  <2>1. \A a \in T : a[1] \notin PolicyOps \/ a[1] = "filterPolicies"
    BY <1>2, <1>3 DEF Leads, MayPrecede, PolicyOps
  <2>2. \A a \in T : a[1] \notin IamOps
    BY <1>2, <1>3 DEF Leads, MayPrecede, IamOps
  <2>3. ASSUME ReplacementsRight({h} \cup T), NEW s \in Roles, PoliciesDue({h} \cup T, s)
        PROVE  PoliciesDue(B \cup T, s)'
    <3>1. CASE s # r
      <4>1. SameForRole({h} \cup T, B \cup T, s)
        BY <1>2, <1>3, <1>4, <1>5, <1>6, <3>1, OfType DEF SameForRole, AboutPolicies, DataOK
      <4>2. QED
        BY <1>7, <2>3, <4>1, PoliciesStay DEF iam, casbin
    <3>2. CASE s = r
      <4>1. role[r] = "live" /\ granted[r] = P
        <5>1. <<"grant", r, P>> \notin {h} \cup T
          BY <1>2, <2>2 DEF IamOps
        <5>2. QED
          BY <1>2, <1>4, <2>3, <5>1 DEF ReplacementsRight
      <4>2. <<"dropRole", r>> \notin B \cup T
        BY <1>6, <2>2 DEF IamOps
      <4>3. Goal(B \cup T, r)' = Policies(P)
        BY <1>7, <4>1, <4>2 DEF Goal, iam
      <4>4. CASE \E a \in T : a[1] = "filterPolicies" /\ a[2] = r
        BY <3>2, <4>4 DEF PoliciesDue, PoliciesRebuilt
      <4>5. CASE \A a \in T : ~(a[1] = "filterPolicies" /\ a[2] = r)
        <5>1. ASSUME NEW e \in Endpoints
              PROVE  /\ e \in p[r] => Removes(x, r, e)
                     /\ (\E a \in B \cup T : Adds(a, r, e)) <=> e \in Policies(P)
          BY <1>3, <1>5, <1>6, <2>1, OfType DEF Removes, Adds, DataOK, PolicyOps
        <5>2. p' = p
          BY <1>7 DEF casbin
        <5>3. PoliciesSettled(B \cup T, r)'
          BY <4>3, <5>1, <5>2 DEF PoliciesSettled
        <5>4. QED
          BY <3>2, <5>3 DEF PoliciesDue
      <4>6. QED
        BY <4>4, <4>5
    <3>3. QED
      BY <3>1, <3>2
  <2>4. ASSUME NEW u \in Users, GroupingsDue({h} \cup T, u)
        PROVE  GroupingsDue(B \cup T, u)'
    <3>1. SameForUser({h} \cup T, B \cup T, u)
      BY <1>2, <1>6 DEF SameForUser, AboutGroupings
    <3>2. QED
      BY <1>7, <2>4, <3>1, GroupingsStay DEF iam, casbin, LiveRoles
  <2>5. /\ Synchronises({h}) <=> Synchronises(B)
        /\ \A a \in B : /\ a[1] \in StartOps
                        /\ a[1] \notin IamOps \cup {"filterGroupings", "filterPolicies", "align"}
    BY <1>2, <1>6 DEF Synchronises, StartOps, IamOps
  <2>6. h[1] \notin IamOps /\ UNCHANGED <<iam, clean>>
    BY <1>2, <1>7 DEF IamOps
  <2> HIDE DEF B
  <2>7. QED
    BY <1>3, <2>3, <2>4, <2>5, <2>6, ProjectionStep
<1>12. DataOK'
  BY <1>3, <1>7, SameData DEF DataOK
<1> HIDE DEF B
<1>13. QED
  BY <1>1, <1>2, <1>7, <1>9, <1>10, <1>11, <1>12, Continues DEF B

LEMMA RemovePoliciesOK ==
  ASSUME RbacInv, NEW q \in Processes, RemovePolicies(q)
  PROVE  RbacInv'
<1>1. PICK h, T : h = Head(todo[q]) /\ T = Range(Tail(todo[q]))
  OBVIOUS
<1>2. todo[q] # << >> /\ h[1] = "removePolicies"
  BY <1>1 DEF RemovePolicies, At
<1>3. Leads(h, T) /\ DataOK
  BY <1>1, <1>2, First
<1>4. PICK F : F = h[2]
  OBVIOUS
<1>5. F \in [Roles -> SUBSET Endpoints]
  BY <1>2, <1>3, <1>4, Parts DEF Leads
<1>6. Continue(q, << >>) /\ p' = [r \in Roles |-> p[r] \ F[r]] /\ UNCHANGED <<iam, g, clean>>
  BY <1>1, <1>4 DEF RemovePolicies, Arg, Proceed
<1>7. Keeps(h, {}, T)
  <2>1. ASSUME NEW s \in Roles, PoliciesDue({h} \cup T, s)
        PROVE  PoliciesDue({} \cup T, s)'
    <3>1. PoliciesRebuilt({h} \cup T, s) => PoliciesRebuilt(T, s)'
      BY <1>2, <1>6 DEF PoliciesRebuilt, iam
    <3>2. ASSUME PoliciesSettled({h} \cup T, s)
          PROVE  PoliciesSettled(T, s)'
      <4>1. Goal(T, s)' = Goal({h} \cup T, s)
        BY <1>2, <1>6 DEF Goal, iam
      <4>2. \A e : (\E x \in {h} \cup T : Adds(x, s, e)) <=> \E x \in T : Adds(x, s, e)
        BY <1>2 DEF Adds
      <4>3. \A e : (\A x \in {h} \cup T : ~Removes(x, s, e))
                     <=> e \notin F[s] /\ \A x \in T : ~Removes(x, s, e)
        BY <1>2, <1>4 DEF Removes
      <4>4. p'[s] = p[s] \ F[s]
        BY <1>6
      <4>5. QED
        BY <3>2, <4>1, <4>2, <4>3, <4>4 DEF PoliciesSettled
    <3>3. QED
      BY <2>1, <3>1, <3>2 DEF PoliciesDue
  <2>2. ASSUME NEW u \in Users, GroupingsDue({h} \cup T, u)
        PROVE  GroupingsDue({} \cup T, u)'
    <3>1. SameForUser({h} \cup T, T, u)
      BY <1>2 DEF SameForUser, AboutGroupings
    <3>2. QED
      BY <1>6, <2>2, <3>1, GroupingsStay DEF iam, LiveRoles
  <2>3. Synchronises({h}) <=> Synchronises({})
    BY <1>2 DEF Synchronises
  <2>4. h[1] \notin IamOps /\ UNCHANGED <<iam, clean>>
    BY <1>2, <1>6 DEF IamOps
  <2>5. QED
    BY <1>3, <2>1, <2>2, <2>3, <2>4, ProjectionStep
<1>8. DataOK'
  BY <1>3, <1>6 DEF DataOK, NewRolesBare, iam
<1>9. QED
  BY <1>1, <1>2, <1>6, <1>7, <1>8, None, Continues

LEMMA AddPoliciesOK ==
  ASSUME RbacInv, NEW q \in Processes, AddPolicies(q)
  PROVE  RbacInv'
<1>1. PICK h, T : h = Head(todo[q]) /\ T = Range(Tail(todo[q]))
  OBVIOUS
<1>2. todo[q] # << >> /\ h[1] = "addPolicies"
  BY <1>1 DEF AddPolicies, At
<1>3. Leads(h, T) /\ DataOK
  BY <1>1, <1>2, First
<1>4. PICK r, P : r = h[2] /\ P = h[3]
  OBVIOUS
<1>5. r \in Roles /\ P \in SUBSET Permissions /\ Policies(P) \in SUBSET Endpoints
  BY <1>2, <1>3, <1>4, Parts, PoliciesType DEF Leads
<1>6. PICK f : f = [e \in Policies(P) |-> <<"addPolicy", r, e>>]
  OBVIOUS
<1>7. Continue(q, ForEach(f)) /\ UNCHANGED <<iam, casbin, clean>>
  BY <1>1, <1>4, <1>6 DEF AddPolicies, Arg
<1> DEFINE B == {<<"addPolicy", r, e>> : e \in Policies(P)}
<1>8. ForEach(f) \in Seq(Instruction) /\ Range(ForEach(f)) = B
  <2>1. f \in [Policies(P) -> Instruction]
    BY <1>5, <1>6, Instructions
  <2>2. ForEach(f) \in Seq(Instruction) /\ Range(ForEach(f)) = {f[e] : e \in Policies(P)}
    BY <1>5, <2>1, Finite, LoopOver
  <2>3. QED
    BY <1>6, <2>2
<1>9. Ordered(ForEach(f))
  BY <1>8, FreelyOrdered DEF MayPrecede, IamOps, PolicyOps, Closing, Leading
<1>10. \A x \in B, y \in T : MayPrecede(x[1], y[1])
  BY <1>2, <1>3 DEF Leads, MayPrecede, IamOps, PolicyOps, Closing, Leading
<1>11. Keeps(h, B, T)
  <2>1. ASSUME NEW s \in Roles, PoliciesDue({h} \cup T, s)
        PROVE  PoliciesDue(B \cup T, s)'
    <3>1. CASE s # r
      <4>1. SameForRole({h} \cup T, B \cup T, s)
        BY <1>2, <1>4, <3>1 DEF SameForRole, AboutPolicies
      <4>2. QED
        BY <1>7, <2>1, <4>1, PoliciesStay DEF iam, casbin
    <3>2. CASE s = r
      <4>1. PoliciesRebuilt({h} \cup T, s) => PoliciesRebuilt(B \cup T, s)'
        BY <1>2, <1>7 DEF PoliciesRebuilt, iam
      <4>2. ASSUME PoliciesSettled({h} \cup T, s)
            PROVE  PoliciesSettled(B \cup T, s)'
        <5>1. Goal(B \cup T, s)' = Goal({h} \cup T, s)
          BY <1>2, <1>7 DEF Goal, iam
        <5>2. \A e : (\E x \in {h} \cup T : Adds(x, s, e)) <=> \E x \in B \cup T : Adds(x, s, e)
          <6>1. \A e : Adds(h, s, e) <=> e \in Policies(P)
            BY <1>2, <1>4, <3>2 DEF Adds
          <6>2. \A e : e \in Policies(P) <=> \E x \in B : Adds(x, s, e)
            <7>1. \A e \in Policies(P) : \E x \in B : x = <<"addPolicy", r, e>>
              OBVIOUS
            <7>2. \A e : Adds(<<"addPolicy", r, e>>, s, e)
              BY <3>2 DEF Adds
            <7>3. ASSUME NEW x \in B, NEW e, Adds(x, s, e)
                  PROVE  e \in Policies(P)
              BY <7>3 DEF Adds
            <7>4. QED
              BY <7>1, <7>2, <7>3
          <6>3. QED
            BY <6>1, <6>2
        <5>3. \A e : (\A x \in {h} \cup T : ~Removes(x, s, e))
                       <=> \A x \in B \cup T : ~Removes(x, s, e)
          BY <1>2 DEF Removes
        <5>4. p' = p
          BY <1>7 DEF casbin
        <5>5. QED
          BY <4>2, <5>1, <5>2, <5>3, <5>4 DEF PoliciesSettled
      <4>3. QED
        BY <2>1, <4>1, <4>2 DEF PoliciesDue
    <3>3. QED
      BY <3>1, <3>2
  <2>2. ASSUME NEW u \in Users, GroupingsDue({h} \cup T, u)
        PROVE  GroupingsDue(B \cup T, u)'
    <3>1. SameForUser({h} \cup T, B \cup T, u)
      BY <1>2 DEF SameForUser, AboutGroupings
    <3>2. QED
      BY <1>7, <2>2, <3>1, GroupingsStay DEF iam, casbin, LiveRoles
  <2>3. /\ Synchronises({h}) <=> Synchronises(B)
        /\ \A a \in B : /\ a[1] \in StartOps
                        /\ a[1] \notin IamOps \cup {"filterGroupings", "filterPolicies", "align"}
    BY <1>2 DEF Synchronises, StartOps, IamOps
  <2>4. h[1] \notin IamOps /\ UNCHANGED <<iam, clean>>
    BY <1>2, <1>7 DEF IamOps
  <2> HIDE DEF B
  <2>5. QED
    BY <1>3, <2>1, <2>2, <2>3, <2>4, ProjectionStep
<1>12. DataOK'
  BY <1>3, <1>7, SameData DEF DataOK
<1> HIDE DEF B
<1>13. QED
  BY <1>1, <1>2, <1>7, <1>8, <1>9, <1>10, <1>11, <1>12, Continues

LEMMA AddPolicyOK ==
  ASSUME RbacInv, NEW q \in Processes, AddPolicy(q)
  PROVE  RbacInv'
<1>1. PICK h, T : h = Head(todo[q]) /\ T = Range(Tail(todo[q]))
  OBVIOUS
<1>2. todo[q] # << >> /\ h[1] = "addPolicy"
  BY <1>1 DEF AddPolicy, At
<1>3. Leads(h, T) /\ DataOK
  BY <1>1, <1>2, First
<1>4. PICK r, d : r = h[2] /\ d = h[3]
  OBVIOUS
<1>5. r \in Roles /\ d \in Endpoints
  BY <1>2, <1>3, <1>4, Parts DEF Leads
<1>6. /\ Continue(q, << >>) /\ UNCHANGED <<iam, g, clean>>
      /\ p' = [p EXCEPT ![r] = @ \cup {d}]
  BY <1>1, <1>4 DEF AddPolicy, Arg, Proceed
<1>7. Keeps(h, {}, T)
  <2>1. ASSUME NEW s \in Roles, PoliciesDue({h} \cup T, s)
        PROVE  PoliciesDue({} \cup T, s)'
    <3>1. PoliciesRebuilt({h} \cup T, s) => PoliciesRebuilt(T, s)'
      BY <1>2, <1>6 DEF PoliciesRebuilt, iam
    <3>2. ASSUME PoliciesSettled({h} \cup T, s)
          PROVE  PoliciesSettled(T, s)'
      <4>1. Goal(T, s)' = Goal({h} \cup T, s)
        BY <1>2, <1>6 DEF Goal, iam
      <4>2. \A e : (\E x \in {h} \cup T : Adds(x, s, e))
                     <=> (e = d /\ s = r) \/ \E x \in T : Adds(x, s, e)
        <5>1. \A e : Adds(h, s, e) <=> (e = d /\ s = r)
          BY <1>2, <1>4 DEF Adds
        <5>2. QED
          BY <5>1
      <4>3. \A e : /\ \A x \in {h} \cup T : ~Removes(x, s, e)
                   /\ \A x \in T : ~Removes(x, s, e)
        BY <1>2, <1>3 DEF Removes, Leads, MayPrecede, Leading, PolicyOps, IamOps
      <4>4. \A e : e \in p'[s] <=> e \in p[s] \/ (e = d /\ s = r)
        BY <1>3, <1>6 DEF DataOK
      <4>5. QED
        BY <3>2, <4>1, <4>2, <4>3, <4>4 DEF PoliciesSettled
    <3>3. QED
      BY <2>1, <3>1, <3>2 DEF PoliciesDue
  <2>2. ASSUME NEW u \in Users, GroupingsDue({h} \cup T, u)
        PROVE  GroupingsDue({} \cup T, u)'
    <3>1. SameForUser({h} \cup T, T, u)
      BY <1>2 DEF SameForUser, AboutGroupings
    <3>2. QED
      BY <1>6, <2>2, <3>1, GroupingsStay DEF iam, LiveRoles
  <2>3. Synchronises({h}) <=> Synchronises({})
    BY <1>2 DEF Synchronises
  <2>4. h[1] \notin IamOps /\ UNCHANGED <<iam, clean>>
    BY <1>2, <1>6 DEF IamOps
  <2>5. QED
    BY <1>3, <2>1, <2>2, <2>3, <2>4, ProjectionStep
<1>8. DataOK'
  BY <1>3, <1>5, <1>6 DEF DataOK, NewRolesBare, iam
<1>9. QED
  BY <1>1, <1>2, <1>6, <1>7, <1>8, None, Continues

LEMMA RereadRolesOK ==
  ASSUME RbacInv, NEW q \in Processes, RereadRoles(q)
  PROVE  RbacInv'
<1>1. PICK h, T : h = Head(todo[q]) /\ T = Range(Tail(todo[q]))
  OBVIOUS
<1>2. todo[q] # << >> /\ h[1] = "rereadRoles"
  BY <1>1 DEF RereadRoles, At
<1>3. Leads(h, T) /\ DataOK
  BY <1>1, <1>2, First
<1>4. PICK listed : listed = IF h[2] = {} THEN {r \in Roles : role[r] = "live"} ELSE h[2]
  OBVIOUS
<1>5. listed \in SUBSET Roles
  BY <1>2, <1>3, <1>4, Parts DEF Leads
<1>6. CASE ~ \A r \in listed : role[r] = "live"
  BY <1>1, <1>2, <1>4, <1>6, AbortOK DEF RereadRoles, Arg
<1>7. CASE \A r \in listed : role[r] = "live"
  <2>1. PICK f : f = [r \in listed |-> <<"filterPolicies", r, granted[r]>>]
    OBVIOUS
  <2>2. Continue(q, ForEach(f)) /\ UNCHANGED <<iam, casbin, clean>>
    BY <1>1, <1>4, <1>7, <2>1 DEF RereadRoles, Arg
  <2>3. PICK B : B = {<<"filterPolicies", r, granted[r]>> : r \in listed}
    OBVIOUS
  <2>4. ForEach(f) \in Seq(Instruction) /\ Range(ForEach(f)) = B
    <3>1. f \in [listed -> Instruction]
      BY <1>3, <1>5, <2>1, Instructions DEF DataOK
    <3>2. ForEach(f) \in Seq(Instruction) /\ Range(ForEach(f)) = {f[r] : r \in listed}
      BY <1>5, <3>1, Finite, LoopOver
    <3>3. QED
      BY <2>1, <2>3, <3>2
  <2>5. Ordered(ForEach(f))
    BY <2>3, <2>4, FreelyOrdered DEF MayPrecede, IamOps, PolicyOps, Closing, Leading
  <2>6. \A x \in B, y \in T : MayPrecede(x[1], y[1])
    BY <1>2, <1>3, <2>3 DEF Leads, MayPrecede, IamOps, PolicyOps, Closing, Leading
  <2>7. Keeps(h, B, T)
    <3>1. \A x \in B : x[1] = "filterPolicies" /\ role[x[2]] = "live" /\ granted[x[2]] = x[3]
      BY <1>7, <2>3
    <3>2. ASSUME NEW s \in Roles, PoliciesDue({h} \cup T, s)
          PROVE  PoliciesDue(B \cup T, s)'
      <4>1. CASE s \in listed
        <5>1. PICK x \in B : x = <<"filterPolicies", s, granted[s]>>
          BY <2>3, <4>1
        <5>2. x[1] = "filterPolicies" /\ x[2] = s
          BY <5>1
        <5>3. PoliciesRebuilt(B \cup T, s)'
          BY <5>2 DEF PoliciesRebuilt
        <5>4. QED
          BY <5>3 DEF PoliciesDue
      <4>2. CASE s \notin listed
        <5>1. PoliciesRebuilt({h} \cup T, s) => PoliciesRebuilt(B \cup T, s)'
          BY <1>2, <1>4, <2>2, <4>2 DEF PoliciesRebuilt, iam
        <5>2. ASSUME PoliciesSettled({h} \cup T, s)
              PROVE  PoliciesSettled(B \cup T, s)'
          <6>1. Goal(B \cup T, s)' = Goal({h} \cup T, s)
            BY <1>2, <2>2, <3>1 DEF Goal, iam
          <6>2. \A e : (\E x \in {h} \cup T : Adds(x, s, e)) <=> \E x \in B \cup T : Adds(x, s, e)
            BY <1>2, <3>1 DEF Adds
          <6>3. \A e : (\A x \in {h} \cup T : ~Removes(x, s, e))
                         <=> \A x \in B \cup T : ~Removes(x, s, e)
            BY <1>2, <3>1 DEF Removes
          <6>4. p' = p
            BY <2>2 DEF casbin
          <6>5. QED
            BY <5>2, <6>1, <6>2, <6>3, <6>4 DEF PoliciesSettled
        <5>3. QED
          BY <3>2, <5>1, <5>2 DEF PoliciesDue
      <4>3. QED
        BY <4>1, <4>2
    <3>3. ASSUME NEW u \in Users, GroupingsDue({h} \cup T, u)
          PROVE  GroupingsDue(B \cup T, u)'
      <4>1. SameForUser({h} \cup T, B \cup T, u)
        BY <1>2, <3>1 DEF SameForUser, AboutGroupings
      <4>2. QED
        BY <2>2, <3>3, <4>1, GroupingsStay DEF iam, casbin, LiveRoles
    <3>4. /\ Synchronises({h}) <=> Synchronises(B)
          /\ \A a \in B : a[1] \notin IamOps \cup {"filterGroupings", "align"}
      BY <1>2, <3>1 DEF Synchronises, IamOps
    <3>5. h[1] \notin IamOps \cup StartOps /\ UNCHANGED <<iam, clean>>
      BY <1>2, <2>2 DEF IamOps, StartOps
    <3>6. QED
      BY <1>3, <3>1, <3>2, <3>3, <3>4, <3>5, ProjectionStep
  <2>8. DataOK'
    BY <1>3, <2>2, SameData DEF DataOK
  <2>9. QED
    BY <1>1, <1>2, <2>2, <2>4, <2>5, <2>6, <2>7, <2>8, Continues
<1>8. QED
  BY <1>6, <1>7

LEMMA GetPolicyOK ==
  ASSUME RbacInv, NEW q \in Processes, GetPolicy(q)
  PROVE  RbacInv'
<1>1. PICK h, T : h = Head(todo[q]) /\ T = Range(Tail(todo[q]))
  OBVIOUS
<1>2. todo[q] # << >> /\ h[1] = "getPolicy"
  BY <1>1 DEF GetPolicy, At
<1>3. Leads(h, T) /\ DataOK
  BY <1>1, <1>2, First
<1>4. PICK x : x = <<"removePolicies", p>>
  OBVIOUS
<1>5. Continue(q, << x >>) /\ UNCHANGED <<iam, casbin, clean>>
  BY <1>4 DEF GetPolicy
<1>6. x \in Instruction /\ x[1] = "removePolicies" /\ x[2] = p
  BY <1>3, <1>4, Instructions DEF DataOK
<1>7. \A y \in T : MayPrecede(x[1], y[1])
  BY <1>2, <1>3, <1>6 DEF Leads, MayPrecede, IamOps, PolicyOps, Closing, Leading
<1>8. Keeps(h, {x}, T)
  <2>1. ASSUME NEW s \in Roles, PoliciesDue({h} \cup T, s)
        PROVE  PoliciesDue({x} \cup T, s)'
    <3>1. PoliciesRebuilt({h} \cup T, s) => PoliciesRebuilt({x} \cup T, s)'
      BY <1>2, <1>5 DEF PoliciesRebuilt, iam
    <3>2. ASSUME PoliciesSettled({h} \cup T, s)
          PROVE  PoliciesSettled({x} \cup T, s)'
      <4>1. Goal({x} \cup T, s)' = Goal({h} \cup T, s)
        BY <1>2, <1>5, <1>6 DEF Goal, iam
      <4>2. \A e : (\E y \in {h} \cup T : Adds(y, s, e)) <=> \E y \in {x} \cup T : Adds(y, s, e)
        BY <1>2, <1>6 DEF Adds
      <4>3. \A e : Removes(h, s, e) /\ (e \in p[s] => Removes(x, s, e))
        BY <1>2, <1>6 DEF Removes
      <4>4. p' = p
        BY <1>5 DEF casbin
      <4>5. QED
        BY <3>2, <4>1, <4>2, <4>3, <4>4 DEF PoliciesSettled
    <3>3. QED
      BY <2>1, <3>1, <3>2 DEF PoliciesDue
  <2>2. ASSUME NEW u \in Users, GroupingsDue({h} \cup T, u)
        PROVE  GroupingsDue({x} \cup T, u)'
    <3>1. SameForUser({h} \cup T, {x} \cup T, u)
      BY <1>2, <1>6 DEF SameForUser, AboutGroupings
    <3>2. QED
      BY <1>5, <2>2, <3>1, GroupingsStay DEF iam, casbin, LiveRoles
  <2>3. /\ Synchronises({h}) <=> Synchronises({x})
        /\ \A y \in {x} : /\ y[1] \in StartOps
                          /\ y[1] \notin IamOps \cup {"filterGroupings", "filterPolicies", "align"}
    BY <1>2, <1>6 DEF Synchronises, StartOps, IamOps
  <2>4. h[1] \notin IamOps /\ UNCHANGED <<iam, clean>>
    BY <1>2, <1>5 DEF IamOps
  <2>5. QED
    BY <1>3, <2>1, <2>2, <2>3, <2>4, ProjectionStep
<1>9. DataOK'
  BY <1>3, <1>5, SameData DEF DataOK
<1>10. QED
  BY <1>1, <1>2, <1>5, <1>6, <1>7, <1>8, <1>9, One, Continues

LEMMA ListRolesOK ==
  ASSUME RbacInv, NEW q \in Processes, ListRoles(q)
  PROVE  RbacInv'
<1>1. PICK h, T : h = Head(todo[q]) /\ T = Range(Tail(todo[q]))
  OBVIOUS
<1>2. todo[q] # << >> /\ h[1] = "listRoles"
  BY <1>1 DEF ListRoles, At
<1>3. Leads(h, T) /\ DataOK /\ T = {}
  BY <1>1, <1>2, First DEF Leads, MayPrecede, Closing
<1>4. PICK live, x, y : /\ live = {r \in Roles : role[r] = "live"}
                        /\ x = <<"getPolicy">> /\ y = <<"listUsers">>
  OBVIOUS
<1>5. PICK f : f = [r \in live |-> <<"addPolicies", r, granted[r]>>]
  OBVIOUS
<1>6. Continue(q, (<< x >> \o ForEach(f)) \o << y >>) /\ UNCHANGED <<iam, casbin, clean>>
  BY <1>4, <1>5 DEF ListRoles
<1>7. PICK A : A = {<<"addPolicies", r, granted[r]>> : r \in live}
  OBVIOUS
<1>8. ForEach(f) \in Seq(Instruction) /\ Range(ForEach(f)) = A
  <2>1. live \in SUBSET Roles
    BY <1>4
  <2>2. f \in [live -> Instruction]
    BY <1>3, <1>5, <2>1, Instructions DEF DataOK
  <2>3. ForEach(f) \in Seq(Instruction) /\ Range(ForEach(f)) = {f[r] : r \in live}
    BY <2>1, <2>2, Finite, LoopOver
  <2>4. QED
    BY <1>5, <1>7, <2>3
<1>9. Ordered(ForEach(f))
  BY <1>7, <1>8, FreelyOrdered DEF MayPrecede, IamOps, PolicyOps, Closing, Leading
<1>10. x \in Instruction /\ y \in Instruction /\ x[1] = "getPolicy" /\ y[1] = "listUsers"
  BY <1>4, Instructions
<1> DEFINE list == (<< x >> \o ForEach(f)) \o << y >>
           B == {x} \cup A \cup {y}
<1>11. list \in Seq(Instruction) /\ Ordered(list) /\ Range(list) = B
  <2>1. \A b \in A : MayPrecede(x[1], b[1]) /\ MayPrecede(b[1], y[1])
    BY <1>7, <1>10 DEF MayPrecede, IamOps, PolicyOps, Closing, Leading
  <2>2. MayPrecede(x[1], y[1])
    BY <1>10 DEF MayPrecede, IamOps, PolicyOps, Closing, Leading
  <2>3. << x >> \in Seq(Instruction) /\ Ordered(<< x >>) /\ Range(<< x >>) = {x}
    BY <1>10, One
  <2>4. /\ << x >> \o ForEach(f) \in Seq(Instruction) /\ Ordered(<< x >> \o ForEach(f))
        /\ Range(<< x >> \o ForEach(f)) = {x} \cup A
    BY <1>8, <1>9, <2>1, <2>3, Joined, JoinedOrdered
  <2>5. QED
    BY <1>10, <2>1, <2>2, <2>4, Then
<1>12. Keeps(h, B, T)
  <2>1. \A a \in B : a[1] \in {"getPolicy", "addPolicies", "listUsers"}
    BY <1>7, <1>10
  <2>2. ASSUME NEW s \in Roles
        PROVE  PoliciesDue(B \cup T, s)'
    <3>1. Goal(B \cup T, s)' = IF role[s] = "live" THEN Policies(granted[s]) ELSE {}
      BY <1>3, <1>6, <2>1 DEF Goal, iam
    <3>2. \A e : (\E a \in B \cup T : Adds(a, s, e))
            <=> role[s] = "live" /\ e \in Policies(granted[s])
      <4>1. ASSUME NEW a \in B, NEW e, Adds(a, s, e)
            PROVE  role[s] = "live" /\ e \in Policies(granted[s])
        BY <1>4, <1>7, <1>10, <4>1 DEF Adds
      <4>2. role[s] = "live" => \E a \in B : a = <<"addPolicies", s, granted[s]>>
        BY <1>4, <1>7
      <4>3. \A e : e \in Policies(granted[s]) => Adds(<<"addPolicies", s, granted[s]>>, s, e)
        BY DEF Adds
      <4>4. QED
        BY <1>3, <4>1, <4>2, <4>3
    <3>3. \A e : Removes(x, s, e)
      BY <1>10 DEF Removes
    <3> HIDE DEF B
    <3>4. PoliciesSettled(B \cup T, s)'
      BY <3>1, <3>2, <3>3 DEF PoliciesSettled, B
    <3>5. QED
      BY <3>4 DEF PoliciesDue
  <2>3. \A u \in Users : GroupingsDue(B \cup T, u)'
    BY <1>10 DEF GroupingsDue, GroupingsRebuilt
  <2>4. /\ Synchronises({h}) <=> Synchronises(B)
        /\ \A a \in B : /\ a[1] \in StartOps
                        /\ a[1] \notin IamOps \cup {"filterGroupings", "filterPolicies", "align"}
    BY <1>2, <1>10, <2>1 DEF Synchronises, StartOps, IamOps
  <2>5. h[1] \notin IamOps /\ UNCHANGED <<iam, clean>>
    BY <1>2, <1>6 DEF IamOps
  <2> HIDE DEF B
  <2>6. QED
    BY <1>3, <2>2, <2>3, <2>4, <2>5, ProjectionStep
<1>13. DataOK'
  BY <1>3, <1>6, SameData DEF DataOK
<1> HIDE DEF B, list
<1>14. QED
  BY <1>1, <1>2, <1>3, <1>6, <1>11, <1>12, <1>13, Continues DEF list

LEMMA ListUsersOK ==
  ASSUME RbacInv, NEW q \in Processes, ListUsers(q)
  PROVE  RbacInv'
<1>1. PICK h, T : h = Head(todo[q]) /\ T = Range(Tail(todo[q]))
  OBVIOUS
<1>2. todo[q] # << >> /\ h[1] = "listUsers"
  BY <1>1 DEF ListUsers, At
<1>3. Leads(h, T) /\ DataOK /\ T = {}
  BY <1>1, <1>2, First DEF Leads, MayPrecede, Closing
<1>4. PICK live, y : live = {u \in Users : user[u] = "live"} /\ y = <<"synchronised">>
  OBVIOUS
<1>5. PICK f : f = [u \in live |-> <<"readRoles", u>>]
  OBVIOUS
<1>6. Continue(q, ForEach(f) \o << y >>) /\ UNCHANGED <<iam, casbin, clean>>
  BY <1>4, <1>5 DEF ListUsers, EnsureAll
<1>7. PICK A : A = {<<"readRoles", u>> : u \in live}
  OBVIOUS
<1>8. ForEach(f) \in Seq(Instruction) /\ Range(ForEach(f)) = A
  <2>1. live \in SUBSET Users
    BY <1>4
  <2>2. f \in [live -> Instruction]
    BY <1>5, <2>1, Instructions
  <2>3. ForEach(f) \in Seq(Instruction) /\ Range(ForEach(f)) = {f[u] : u \in live}
    BY <2>1, <2>2, Finite, LoopOver
  <2>4. QED
    BY <1>5, <1>7, <2>3
<1>9. Ordered(ForEach(f))
  BY <1>7, <1>8, FreelyOrdered DEF MayPrecede, IamOps, PolicyOps, Closing, Leading
<1>10. y \in Instruction /\ y[1] = "synchronised"
  BY <1>4, Instructions
<1> DEFINE list == ForEach(f) \o << y >>
           B == A \cup {y}
<1>11. list \in Seq(Instruction) /\ Ordered(list) /\ Range(list) = B
  <2>1. \A b \in A : MayPrecede(b[1], y[1])
    BY <1>7, <1>10 DEF MayPrecede, IamOps, PolicyOps, Closing, Leading
  <2>2. QED
    BY <1>8, <1>9, <1>10, <2>1, Then
<1>12. Keeps(h, B, T)
  <2>1. \A a \in B : a[1] \in {"readRoles", "synchronised"}
    BY <1>7, <1>10
  <2>2. ASSUME NEW s \in Roles, PoliciesDue({h} \cup T, s)
        PROVE  PoliciesDue(B \cup T, s)'
    <3>1. SameForRole({h} \cup T, B \cup T, s)
      BY <1>2, <2>1 DEF SameForRole, AboutPolicies
    <3>2. QED
      BY <1>6, <2>2, <3>1, PoliciesStay DEF iam, casbin
  <2>3. ASSUME NEW u \in Users, user[u] = "live"
        PROVE  GroupingsDue(B \cup T, u)'
    <3>1. PICK x \in B : x = <<"readRoles", u>>
      BY <1>4, <1>7, <2>3
    <3>2. x[1] = "readRoles" /\ x[2] = u
      BY <3>1
    <3>3. QED
      BY <3>2 DEF GroupingsDue, GroupingsRebuilt
  <2>4. /\ Synchronises({h}) <=> Synchronises(B)
        /\ \A a \in B : /\ a[1] \in StartOps
                        /\ a[1] \notin IamOps \cup {"filterGroupings", "filterPolicies", "align"}
    BY <1>2, <1>10, <2>1 DEF Synchronises, StartOps, IamOps
  <2>5. h[1] \notin IamOps /\ UNCHANGED <<iam, clean>>
    BY <1>2, <1>6 DEF IamOps
  <2> HIDE DEF B
  <2>6. QED
    BY <1>3, <2>2, <2>3, <2>4, <2>5, ProjectionStep
<1>13. DataOK'
  BY <1>3, <1>6, SameData DEF DataOK
<1> HIDE DEF B, list
<1>14. QED
  BY <1>1, <1>2, <1>3, <1>6, <1>11, <1>12, <1>13, Continues DEF list

LEMMA ReadRolesOK ==
  ASSUME RbacInv, NEW q \in Processes, ReadRoles(q)
  PROVE  RbacInv'
<1>1. PICK h, T : h = Head(todo[q]) /\ T = Range(Tail(todo[q]))
  OBVIOUS
<1>2. todo[q] # << >> /\ h[1] = "readRoles"
  BY <1>1 DEF ReadRoles, At
<1>3. Leads(h, T) /\ DataOK
  BY <1>1, <1>2, First
<1>4. PICK u, x : u = h[2] /\ x = <<"align", u, LiveRoles(u)>>
  OBVIOUS
<1>5. CASE user[u] # "live"
  BY <1>1, <1>2, <1>4, <1>5, AbortOK DEF ReadRoles, Arg
<1>6. CASE user[u] = "live"
  <2>1. Continue(q, << x >>) /\ UNCHANGED <<iam, casbin, clean>>
    BY <1>1, <1>4, <1>6 DEF ReadRoles, Arg
  <2>2. /\ u \in Users /\ x \in Instruction
        /\ x[1] = "align" /\ x[2] = u /\ x[3] = LiveRoles(u)
    <3>1. u \in Users
      BY <1>2, <1>3, <1>4, Parts DEF Leads
    <3>2. LiveRoles(u) \in SUBSET Roles
      BY <1>3, <3>1 DEF LiveRoles, DataOK
    <3>3. QED
      BY <1>4, <3>1, <3>2, Instructions
  <2>3. \A y \in T : MayPrecede(x[1], y[1])
    BY <1>2, <1>3, <2>2 DEF Leads, MayPrecede, IamOps, PolicyOps, Closing, Leading
  <2>4. Keeps(h, {x}, T)
    <3>1. ASSUME NEW s \in Roles, PoliciesDue({h} \cup T, s)
          PROVE  PoliciesDue({x} \cup T, s)'
      <4>1. SameForRole({h} \cup T, {x} \cup T, s)
        BY <1>2, <2>2 DEF SameForRole, AboutPolicies
      <4>2. QED
        BY <2>1, <3>1, <4>1, PoliciesStay DEF iam, casbin
    <3>2. ASSUME NEW v \in Users, GroupingsDue({h} \cup T, v)
          PROVE  GroupingsDue({x} \cup T, v)'
      <4>1. CASE v = u
        BY <2>2, <4>1 DEF GroupingsDue, GroupingsRebuilt
      <4>2. CASE v # u
        <5>1. SameForUser({h} \cup T, {x} \cup T, v)
          BY <1>2, <1>4, <2>2, <4>2 DEF SameForUser, AboutGroupings
        <5>2. QED
          BY <2>1, <3>2, <5>1, GroupingsStay DEF iam, casbin, LiveRoles
      <4>3. QED
        BY <4>1, <4>2
    <3>3. /\ Synchronises({h}) <=> Synchronises({x})
          /\ \A y \in {x} : /\ y[1] \in StartOps
                            /\ y[1] \notin IamOps \cup {"filterGroupings", "filterPolicies"}
                            /\ y[3] = LiveRoles(y[2])
      BY <1>2, <2>2 DEF Synchronises, StartOps, IamOps
    <3>4. h[1] \notin IamOps /\ UNCHANGED <<iam, clean>>
      BY <1>2, <2>1 DEF IamOps
    <3>5. QED
      BY <1>3, <3>1, <3>2, <3>3, <3>4, ProjectionStep
  <2>5. DataOK'
    BY <1>3, <2>1, SameData DEF DataOK
  <2>6. QED
    BY <1>1, <1>2, <2>1, <2>2, <2>3, <2>4, <2>5, One, Continues
<1>7. QED
  BY <1>5, <1>6

LEMMA AlignOK ==
  ASSUME RbacInv, NEW q \in Processes, Align(q)
  PROVE  RbacInv'
<1>1. PICK h, T : h = Head(todo[q]) /\ T = Range(Tail(todo[q]))
  OBVIOUS
<1>2. todo[q] # << >> /\ h[1] = "align"
  BY <1>1 DEF Align, At
<1>3. Leads(h, T) /\ DataOK
  BY <1>1, <1>2, First
<1>4. PICK u, want : u = h[2] /\ want = h[3]
  OBVIOUS
<1>5. u \in Users /\ want \in SUBSET Roles /\ g[u] \in SUBSET Roles
  BY <1>2, <1>3, <1>4, Parts DEF Leads, DataOK
<1>6. PICK gone, old, new : /\ gone = g[u] \ want
                            /\ old = [r \in gone |-> <<"removeGrouping", u, r>>]
                            /\ new = [r \in want |-> <<"addGrouping", u, r>>]
  OBVIOUS
<1>7. Continue(q, ForEach(old) \o ForEach(new)) /\ UNCHANGED <<iam, casbin, clean>>
  BY <1>1, <1>4, <1>6 DEF Align, Arg
<1>8. PICK X, Y : /\ X = {<<"removeGrouping", u, r>> : r \in gone}
                  /\ Y = {<<"addGrouping", u, r>> : r \in want}
  OBVIOUS
<1>9. ForEach(old) \in Seq(Instruction) /\ Range(ForEach(old)) = X
  <2>1. gone \in SUBSET Roles
    BY <1>5, <1>6
  <2>2. old \in [gone -> Instruction]
    BY <1>5, <1>6, <2>1, Instructions
  <2>3. ForEach(old) \in Seq(Instruction) /\ Range(ForEach(old)) = {old[r] : r \in gone}
    BY <2>1, <2>2, Finite, LoopOver
  <2>4. QED
    BY <1>6, <1>8, <2>3
<1>10. ForEach(new) \in Seq(Instruction) /\ Range(ForEach(new)) = Y
  <2>1. new \in [want -> Instruction]
    BY <1>5, <1>6, Instructions
  <2>2. ForEach(new) \in Seq(Instruction) /\ Range(ForEach(new)) = {new[r] : r \in want}
    BY <1>5, <2>1, Finite, LoopOver
  <2>3. QED
    BY <1>6, <1>8, <2>2
<1> DEFINE list == ForEach(old) \o ForEach(new)
           B == X \cup Y
<1>11. list \in Seq(Instruction) /\ Ordered(list) /\ Range(list) = B
  <2>1. /\ list \in Seq(Instruction) /\ Range(list) = B
    BY <1>9, <1>10, Joined
  <2>2. \A x, y \in B : MayPrecede(x[1], y[1])
    BY <1>8 DEF MayPrecede, IamOps, PolicyOps, Closing, Leading
  <2> HIDE DEF list, B
  <2>3. QED
    BY <2>1, <2>2, FreelyOrdered
<1>12. \A x \in B, y \in T : MayPrecede(x[1], y[1])
  BY <1>2, <1>3, <1>8 DEF Leads, MayPrecede, IamOps, PolicyOps, Closing, Leading
<1>13. Keeps(h, B, T)
  <2>1. /\ \A x \in B : x[1] \in {"removeGrouping", "addGrouping"} /\ x[2] = u
        /\ \A x \in T : x[1] \in {"readRoles", "synchronised"}
    BY <1>2, <1>3, <1>8 DEF Leads, MayPrecede
  <2>2. ASSUME NEW s \in Roles, PoliciesDue({h} \cup T, s)
        PROVE  PoliciesDue(B \cup T, s)'
    <3>1. SameForRole({h} \cup T, B \cup T, s)
      BY <1>2, <2>1 DEF SameForRole, AboutPolicies
    <3>2. QED
      BY <1>7, <2>2, <3>1, PoliciesStay DEF iam, casbin
  <2>3. ASSUME AlignmentsRight({h} \cup T), NEW v \in Users, GroupingsDue({h} \cup T, v)
        PROVE  GroupingsDue(B \cup T, v)'
    <3>1. CASE v # u
      <4>1. SameForUser({h} \cup T, B \cup T, v)
        BY <1>2, <1>4, <2>1, <3>1 DEF SameForUser, AboutGroupings
      <4>2. QED
        BY <1>7, <2>3, <4>1, GroupingsStay DEF iam, casbin, LiveRoles
    <3>2. CASE v = u
      <4>1. want = LiveRoles(u)
        BY <1>2, <1>4, <2>3 DEF AlignmentsRight
      <4>2. \A r \in Roles : /\ <<"removeGrouping", u, r>> \in B \cup T <=> r \in gone
                             /\ <<"addGrouping", u, r>> \in B \cup T <=> r \in want
        BY <1>8, <2>1
      <4>3. g' = g /\ LiveRoles(u)' = LiveRoles(u)
        BY <1>7 DEF iam, casbin, LiveRoles
      <4>4. GroupingsSettled(B \cup T, u)'
        BY <1>6, <4>1, <4>2, <4>3 DEF GroupingsSettled
      <4>5. QED
        BY <3>2, <4>4 DEF GroupingsDue
    <3>3. QED
      BY <3>1, <3>2
  <2>4. /\ Synchronises({h}) <=> Synchronises(B)
        /\ \A a \in B : /\ a[1] \in StartOps
                        /\ a[1] \notin IamOps \cup {"filterGroupings", "filterPolicies", "align"}
    BY <1>2, <2>1 DEF Synchronises, StartOps, IamOps
  <2>5. h[1] \notin IamOps /\ UNCHANGED <<iam, clean>>
    BY <1>2, <1>7 DEF IamOps
  <2> HIDE DEF B
  <2>6. QED
    BY <1>3, <2>2, <2>3, <2>4, <2>5, ProjectionStep
<1>14. DataOK'
  BY <1>3, <1>7, SameData DEF DataOK
<1> HIDE DEF B, list
<1>15. QED
  BY <1>1, <1>2, <1>7, <1>11, <1>12, <1>13, <1>14, Continues DEF list

LEMMA FilterGroupingsOK ==
  ASSUME RbacInv, NEW q \in Processes, FilterGroupings(q)
  PROVE  RbacInv'
<1>1. PICK h, T : h = Head(todo[q]) /\ T = Range(Tail(todo[q]))
  OBVIOUS
<1>2. todo[q] # << >> /\ h[1] = "filterGroupings"
  BY <1>1 DEF FilterGroupings, At
<1>3. Leads(h, T) /\ DataOK /\ T = {}
  BY <1>1, <1>2, First DEF Leads, MayPrecede, Closing
<1>4. PICK u, f : u = h[2] /\ f = [r \in g[u] |-> <<"removeGrouping", u, r>>]
  OBVIOUS
<1>5. u \in Users /\ g[u] \in SUBSET Roles
  BY <1>2, <1>3, <1>4, Parts DEF Leads, DataOK
<1>6. Continue(q, ForEach(f)) /\ UNCHANGED <<iam, casbin, clean>>
  BY <1>1, <1>4 DEF FilterGroupings, Arg
<1>7. PICK B : B = {<<"removeGrouping", u, r>> : r \in g[u]}
  OBVIOUS
<1>8. ForEach(f) \in Seq(Instruction) /\ Range(ForEach(f)) = B
  <2>1. f \in [g[u] -> Instruction]
    BY <1>4, <1>5, Instructions
  <2>2. ForEach(f) \in Seq(Instruction) /\ Range(ForEach(f)) = {f[r] : r \in g[u]}
    BY <1>5, <2>1, Finite, LoopOver
  <2>3. QED
    BY <1>4, <1>7, <2>2
<1>9. \A x \in B : x[1] = "removeGrouping" /\ x[2] = u
  BY <1>7
<1>10. Ordered(ForEach(f))
  BY <1>8, <1>9, FreelyOrdered DEF MayPrecede, IamOps, PolicyOps, Closing, Leading
<1>11. Keeps(h, B, T)
  <2>1. ASSUME NEW s \in Roles, PoliciesDue({h} \cup T, s)
        PROVE  PoliciesDue(B \cup T, s)'
    <3>1. SameForRole({h} \cup T, B \cup T, s)
      BY <1>2, <1>9 DEF SameForRole, AboutPolicies
    <3>2. QED
      BY <1>6, <2>1, <3>1, PoliciesStay DEF iam, casbin
  <2>2. ASSUME ChangesFollowed({h} \cup T), NEW v \in Users, user[v] = "live",
               GroupingsDue({h} \cup T, v)
        PROVE  GroupingsDue(B \cup T, v)'
    <3>1. v # u
      <4>1. <<"dropUser", u>> \notin {h} \cup T
        BY <1>2, <1>3
      <4>2. QED
        BY <1>2, <1>4, <2>2, <4>1 DEF ChangesFollowed
    <3>2. SameForUser({h} \cup T, B \cup T, v)
      BY <1>2, <1>9, <3>1 DEF SameForUser, AboutGroupings
    <3>3. QED
      BY <1>6, <2>2, <3>2, GroupingsStay DEF iam, casbin, LiveRoles
  <2>3. /\ Synchronises({h}) <=> Synchronises(B)
        /\ \A a \in B : /\ a[1] \in StartOps
                        /\ a[1] \notin IamOps \cup {"filterGroupings", "filterPolicies", "align"}
    BY <1>2, <1>9 DEF Synchronises, StartOps, IamOps
  <2>4. h[1] \notin IamOps /\ UNCHANGED <<iam, clean>>
    BY <1>2, <1>6 DEF IamOps
  <2>5. QED
    BY <1>3, <2>1, <2>2, <2>3, <2>4, ProjectionStep
<1>12. DataOK'
  BY <1>3, <1>6, SameData DEF DataOK
<1>13. QED
  BY <1>1, <1>2, <1>3, <1>6, <1>8, <1>10, <1>11, <1>12, Continues

LEMMA RemoveGroupingOK ==
  ASSUME RbacInv, NEW q \in Processes, RemoveGrouping(q)
  PROVE  RbacInv'
<1>1. PICK h, T : h = Head(todo[q]) /\ T = Range(Tail(todo[q]))
  OBVIOUS
<1>2. todo[q] # << >> /\ h[1] = "removeGrouping"
  BY <1>1 DEF RemoveGrouping, At
<1>3. Leads(h, T) /\ DataOK
  BY <1>1, <1>2, First
<1>4. PICK u, d : u = h[2] /\ d = h[3]
  OBVIOUS
<1>5. u \in Users /\ d \in Roles
  BY <1>2, <1>3, <1>4, Parts DEF Leads
<1>6. /\ Continue(q, << >>) /\ UNCHANGED <<iam, p, clean>>
      /\ g' = [g EXCEPT ![u] = @ \ {d}]
  BY <1>1, <1>4 DEF RemoveGrouping, Arg, Proceed
<1>7. Keeps(h, {}, T)
  <2>1. ASSUME NEW s \in Roles, PoliciesDue({h} \cup T, s)
        PROVE  PoliciesDue({} \cup T, s)'
    <3>1. SameForRole({h} \cup T, T, s)
      BY <1>2 DEF SameForRole, AboutPolicies
    <3>2. QED
      BY <1>6, <2>1, <3>1, PoliciesStay DEF iam
  <2>2. ASSUME NEW v \in Users, GroupingsDue({h} \cup T, v)
        PROVE  GroupingsDue({} \cup T, v)'
    <3>1. GroupingsRebuilt({h} \cup T, v) => GroupingsRebuilt(T, v)'
      BY <1>2 DEF GroupingsRebuilt
    <3>2. ASSUME GroupingsSettled({h} \cup T, v)
          PROVE  GroupingsSettled(T, v)'
      <4>1. LiveRoles(v)' = LiveRoles(v)
        BY <1>6 DEF iam, LiveRoles
      <4>2. ASSUME NEW r \in Roles
            PROVE  /\ <<"addGrouping", v, r>> \in {h} \cup T <=> <<"addGrouping", v, r>> \in T
                   /\ <<"removeGrouping", v, r>> \in T => <<"removeGrouping", v, r>> \in {h} \cup T
                   /\ <<"removeGrouping", v, r>> \in {h} \cup T =>
                        <<"removeGrouping", v, r>> \in T \/ (v = u /\ r = d)
        BY <1>2, <1>4
      <4>3. v = u => <<"removeGrouping", v, d>> \in {h} \cup T
        <5>1. h = <<"removeGrouping", h[2], h[3]>>
          BY <1>2, <1>3 DEF Leads, Instruction
        <5>2. QED
          BY <1>4, <5>1
      <4>4. \A r \in Roles : r \in g'[v] <=> r \in g[v] /\ ~(v = u /\ r = d)
        BY <1>3, <1>6 DEF DataOK
      <4>5. QED
        BY <3>2, <4>1, <4>2, <4>3, <4>4 DEF GroupingsSettled
    <3>3. QED
      BY <2>2, <3>1, <3>2 DEF GroupingsDue
  <2>3. Synchronises({h}) <=> Synchronises({})
    BY <1>2 DEF Synchronises
  <2>4. h[1] \notin IamOps /\ UNCHANGED <<iam, clean>>
    BY <1>2, <1>6 DEF IamOps
  <2>5. QED
    BY <1>3, <2>1, <2>2, <2>3, <2>4, ProjectionStep
<1>8. DataOK'
  BY <1>3, <1>6 DEF DataOK, NewRolesBare, iam
<1>9. QED
  BY <1>1, <1>2, <1>6, <1>7, <1>8, None, Continues

LEMMA AddGroupingOK ==
  ASSUME RbacInv, NEW q \in Processes, AddGrouping(q)
  PROVE  RbacInv'
<1>1. PICK h, T : h = Head(todo[q]) /\ T = Range(Tail(todo[q]))
  OBVIOUS
<1>2. todo[q] # << >> /\ h[1] = "addGrouping"
  BY <1>1 DEF AddGrouping, At
<1>3. Leads(h, T) /\ DataOK
  BY <1>1, <1>2, First
<1>4. PICK u, d : u = h[2] /\ d = h[3]
  OBVIOUS
<1>5. u \in Users /\ d \in Roles
  BY <1>2, <1>3, <1>4, Parts DEF Leads
<1>6. /\ Continue(q, << >>) /\ UNCHANGED <<iam, p, clean>>
      /\ g' = [g EXCEPT ![u] = @ \cup {d}]
  BY <1>1, <1>4 DEF AddGrouping, Arg, Proceed
<1>7. Keeps(h, {}, T)
  <2>1. ASSUME NEW s \in Roles, PoliciesDue({h} \cup T, s)
        PROVE  PoliciesDue({} \cup T, s)'
    <3>1. SameForRole({h} \cup T, T, s)
      BY <1>2 DEF SameForRole, AboutPolicies
    <3>2. QED
      BY <1>6, <2>1, <3>1, PoliciesStay DEF iam
  <2>2. ASSUME NEW v \in Users, GroupingsDue({h} \cup T, v)
        PROVE  GroupingsDue({} \cup T, v)'
    <3>1. GroupingsRebuilt({h} \cup T, v) => GroupingsRebuilt(T, v)'
      BY <1>2 DEF GroupingsRebuilt
    <3>2. ASSUME GroupingsSettled({h} \cup T, v)
          PROVE  GroupingsSettled(T, v)'
      <4>1. LiveRoles(v)' = LiveRoles(v)
        BY <1>6 DEF iam, LiveRoles
      <4>2. ASSUME NEW r \in Roles
            PROVE  /\ <<"removeGrouping", v, r>> \in {h} \cup T <=> <<"removeGrouping", v, r>> \in T
                   /\ <<"addGrouping", v, r>> \in T => <<"addGrouping", v, r>> \in {h} \cup T
                   /\ <<"addGrouping", v, r>> \in {h} \cup T =>
                        <<"addGrouping", v, r>> \in T \/ (v = u /\ r = d)
        BY <1>2, <1>4
      <4>3. v = u => <<"addGrouping", v, d>> \in {h} \cup T
        <5>1. h = <<"addGrouping", h[2], h[3]>>
          BY <1>2, <1>3 DEF Leads, Instruction
        <5>2. QED
          BY <1>4, <5>1
      <4>4. \A r \in Roles : r \in g'[v] <=> r \in g[v] \/ (v = u /\ r = d)
        BY <1>3, <1>6 DEF DataOK
      <4>5. QED
        BY <1>5, <3>2, <4>1, <4>2, <4>3, <4>4 DEF GroupingsSettled
    <3>3. QED
      BY <2>2, <3>1, <3>2 DEF GroupingsDue
  <2>3. Synchronises({h}) <=> Synchronises({})
    BY <1>2 DEF Synchronises
  <2>4. h[1] \notin IamOps /\ UNCHANGED <<iam, clean>>
    BY <1>2, <1>6 DEF IamOps
  <2>5. QED
    BY <1>3, <2>1, <2>2, <2>3, <2>4, ProjectionStep
<1>8. DataOK'
  BY <1>3, <1>5, <1>6 DEF DataOK, NewRolesBare, iam
<1>9. QED
  BY <1>1, <1>2, <1>6, <1>7, <1>8, None, Continues

\* Nothing is left to do but to be exact.
LEMMA NothingLeft ==
  ASSUME NEW h, h[1] = "synchronised", ProjectionDue({h})
  PROVE  ProjectionDue({})
<1>1. Synchronises({h}) /\ ~Synchronises({})
  BY DEF Synchronises
<1>2. ASSUME NEW r \in Roles
      PROVE  PoliciesSettled({}, r)
  <2>1. PoliciesSettled({h}, r)
    BY <1>1 DEF ProjectionDue, PoliciesRebuilt
  <2>2. Goal({h}, r) = Goal({}, r)
    BY DEF Goal
  <2>3. \A e : ~Adds(h, r, e) /\ ~Removes(h, r, e)
    BY DEF Adds, Removes
  <2>4. QED
    BY <2>1, <2>2, <2>3 DEF PoliciesSettled
<1>3. ASSUME NEW u \in Users, user[u] = "live"
      PROVE  GroupingsSettled({}, u)
  BY <1>1, <1>3 DEF ProjectionDue, GroupingsRebuilt, GroupingsSettled
<1>4. QED
  BY <1>2, <1>3 DEF ProjectionDue

LEMMA SynchronisedOK ==
  ASSUME RbacInv, NEW q \in Processes, Synchronised(q)
  PROVE  RbacInv'
<1>1. PICK h, T : h = Head(todo[q]) /\ T = Range(Tail(todo[q]))
  OBVIOUS
<1>2. todo[q] # << >> /\ h[1] = "synchronised"
  BY <1>1 DEF Synchronised, At
<1>3. Leads(h, T) /\ DataOK /\ T = {}
  BY <1>1, <1>2, First DEF Leads, MayPrecede, Closing
<1>4. Continue(q, << >>) /\ clean' \in BOOLEAN /\ UNCHANGED <<iam, casbin>>
  BY <1>3 DEF Synchronised, Proceed, DataOK
<1>5. MakesGood({h}) => MakesGood({})'
  <2> SUFFICES ASSUME MakesGood({h})
               PROVE  MakesGood({})'
    OBVIOUS
  <2>1. ProjectionDue({h})
    BY DEF MakesGood
  <2>2. ProjectionDue({})
    BY <1>2, <2>1, NothingLeft
  <2>3. clean => \A r \in Roles : PoliciesSettled({}, r)
    BY <2>2 DEF ProjectionDue, PoliciesRebuilt
  <2>4. /\ \A r \in Roles : PoliciesDue({h}, r)
        /\ \A u \in Users : user[u] = "live" => GroupingsDue({h}, u)
    BY <1>2, <2>1 DEF ProjectionDue, Synchronises, PoliciesDue, GroupingsDue
  <2>5. ASSUME NEW r \in Roles
        PROVE  PoliciesDue({}, r)'
    <3>1. SameForRole({h}, {}, r)
      BY <1>2 DEF SameForRole, AboutPolicies
    <3>2. QED
      BY <1>4, <2>4, <3>1, PoliciesStay DEF iam, casbin
  <2>6. ASSUME NEW u \in Users, user'[u] = "live"
        PROVE  GroupingsDue({}, u)'
    <3>1. SameForUser({h}, {}, u)
      BY <1>2 DEF SameForUser, AboutGroupings
    <3>2. QED
      BY <1>4, <2>4, <2>6, <3>1, GroupingsStay DEF iam, casbin, LiveRoles
  <2>7. ProjectionDue({})'
    BY <2>5, <2>6 DEF ProjectionDue, PoliciesDue, GroupingsDue
  <2>8. QED
    BY <2>7 DEF MakesGood, GrantsFollowed, ReplacementsRight, ChangesFollowed, DeletionsSpare,
                AlignmentsRight
<1>6. Keeps(h, {}, T)
  BY <1>3, <1>5 DEF Keeps
<1>7. DataOK'
  BY <1>3, <1>4, SameData
<1>8. QED
  BY <1>1, <1>2, <1>4, <1>6, <1>7, None, Continues

-----------------------------------------------------------------------------
(* IAM statements, one by one *)

\* ChangesFollowed in the next state.
LEMMA FollowedNext ==
  ASSUME NEW J,
         \A x \in J :
           /\ x[1] \in {"checkRole", "bind", "unbind", "createUser"} =>
                <<"readRoles", x[2]>> \in J \/ <<"listRoles">> \in J
           /\ x[1] \in {"seedRole", "seedMappings", "seedAdmin"} => <<"listRoles">> \in J
           /\ x[1] = "clearRoles" => <<"dropUser", x[2]>> \in J
           /\ x[1] = "filterGroupings" => user'[x[2]] # "live" \/ <<"dropUser", x[2]>> \in J
  PROVE  ChangesFollowed(J)'
  BY Zenon DEF ChangesFollowed

\* A statement that succeeds, and is followed by nothing new but a binding or a grant.
LEMMA IamStep ==
  ASSUME NEW h, NEW T, Leads(h, T), h[1] \in IamOps,
         NEW B, \A x \in B : x[1] \in {"bind", "grant"},
         UNCHANGED <<casbin, clean>>,
         \A x \in B : x[1] = "grant" => h[1] = "seedMappings",
         \A x \in B : x[1] = "bind" => h = <<"checkRole", x[2], x[3]>>,
         h[1] = "grant" => role'[h[2]] = "live" /\ granted'[h[2]] = h[3],
         h[1] # "dropRole" => \A r \in Roles : role[r] = "live" => role'[r] = "live",
         \A r \in Roles : granted'[r] = granted[r] \/ (h[1] = "grant" /\ h[2] = r),
         h[1] = "clearRoles" => user' = user,
         h[1] = "dropUser" => user'[h[2]] # "live"
                                /\ \A u \in Users : u = h[2] \/ user'[u] = user[u],
         h[1] \in {"countRoles", "unbind"} /\ DeletionsSpare({h} \cup T)
             => DeletionsSpare(B \cup T)',
         GrantsFollowed({h} \cup T) /\ ChangesFollowed({h} \cup T) =>
           \A r \in Roles : PoliciesDue({h} \cup T, r) => PoliciesDue(B \cup T, r)',
         ChangesFollowed({h} \cup T) /\ DeletionsSpare({h} \cup T) =>
           \A u \in Users : user'[u] = "live"
                               /\ (user[u] = "live" => GroupingsDue({h} \cup T, u)) =>
             GroupingsDue(B \cup T, u)',
         h[1] \in StartOps /\ SeedsAdmin({h} \cup T) => SeedsAdmin(B \cup T)'
  PROVE  Keeps(h, B, T)
<1> DEFINE I == {h} \cup T
           J == B \cup T
<1>1. /\ \A x \in T : x \in Instruction /\ MayPrecede(h[1], x[1])
      /\ h \in Instruction
      /\ \A x \in T : x[1] # "align"
  BY DEF Leads, MayPrecede, Leading
<1>2. \A x \in I : x[1] \in IamOps \/ x \in T
  OBVIOUS
<1>3. Synchronises(I) <=> Synchronises(J)
  BY DEF Synchronises, IamOps
<1>4. ASSUME MakesGood(I)
      PROVE  MakesGood(J)'
  <2>1. /\ GrantsFollowed(I) /\ ReplacementsRight(I) /\ ChangesFollowed(I)
        /\ DeletionsSpare(I) /\ ProjectionDue(I)
    BY <1>4 DEF MakesGood
  <2>2. GrantsFollowed(J)'
    <3> SUFFICES ASSUME NEW x \in J, x[1] = "grant"
                 PROVE  \/ <<"listRoles">> \in J
                        \/ \E y \in J : y[1] = "rereadRoles" /\ (y[2] = {} \/ x[2] \in y[2])
                        \/ <<"filterPolicies", x[2], x[3]>> \in J
      BY DEF GrantsFollowed
    <3>1. CASE x \in B
      <4>1. <<"listRoles">> \in I
        BY <2>1, <3>1 DEF ChangesFollowed
      <4>2. QED
        BY <4>1, <1>2 DEF IamOps
    <3>2. CASE x \in T
      BY <2>1, <3>2, <1>2 DEF GrantsFollowed, IamOps
    <3>3. QED
      BY <3>1, <3>2
  <2>3. ReplacementsRight(J)'
    <3> SUFFICES ASSUME NEW x \in J, x[1] = "filterPolicies"
                 PROVE  /\ \/ <<"grant", x[2], x[3]>> \in J
                           \/ role'[x[2]] = "live" /\ granted'[x[2]] = x[3]
                        /\ \A y \in J : y[1] = "grant" /\ y[2] = x[2] => y[3] = x[3]
      BY DEF ReplacementsRight
    <3>1. x \in T /\ x[2] \in Roles /\ h[1] \notin {"dropRole", "seedMappings"}
      <4>1. x \in T
        OBVIOUS
      <4>2. QED
        BY <1>1, <4>1, Parts DEF MayPrecede
    <3>2. \A y \in J : y[1] = "grant" => y \in T
      BY <3>1
    <3>3. /\ <<"grant", x[2], x[3]>> \in I \/ (role[x[2]] = "live" /\ granted[x[2]] = x[3])
          /\ \A y \in I : y[1] = "grant" /\ y[2] = x[2] => y[3] = x[3]
      BY <2>1, <3>1 DEF ReplacementsRight
    <3>4. h[1] = "grant" /\ h[2] = x[2] => role'[x[2]] = "live" /\ granted'[x[2]] = x[3]
      BY <3>3
    <3>5. <<"grant", x[2], x[3]>> = h => h[1] = "grant" /\ h[2] = x[2]
      OBVIOUS
    <3>6. QED
      BY <3>1, <3>2, <3>3, <3>4, <3>5
  <2>4. ChangesFollowed(J)'
    <3>1. ASSUME NEW x \in J, x[1] \in {"checkRole", "bind", "unbind", "createUser"}
          PROVE  <<"readRoles", x[2]>> \in J \/ <<"listRoles">> \in J
      <4>1. <<"readRoles", x[2]>> \in I \/ <<"listRoles">> \in I
        <5>1. CASE x \in T
          BY <2>1, <3>1, <5>1 DEF ChangesFollowed
        <5>2. CASE x \in B
          <6>1. h[1] = "checkRole" /\ h[2] = x[2]
            BY <3>1, <5>2
          <6>2. QED
            BY <2>1, <6>1 DEF ChangesFollowed
        <5>3. QED
          BY <5>1, <5>2
      <4>2. QED
        BY <4>1, <1>2 DEF IamOps
    <3>2. ASSUME NEW x \in J, x[1] \in {"seedRole", "seedMappings", "seedAdmin"}
          PROVE  <<"listRoles">> \in J
      <4>1. x \in T
        BY <3>2
      <4>2. <<"listRoles">> \in I
        BY <2>1, <3>2, <4>1 DEF ChangesFollowed
      <4>3. QED
        BY <4>2, <1>2 DEF IamOps
    <3>3. ASSUME NEW x \in J, x[1] = "clearRoles"
          PROVE  <<"dropUser", x[2]>> \in J
      <4>1. x \in T
        BY <3>3
      <4>2. QED
        BY <1>1, <3>3, <4>1 DEF MayPrecede, Leading
    <3>4. ASSUME NEW x \in J, x[1] = "filterGroupings"
          PROVE  user'[x[2]] # "live" \/ <<"dropUser", x[2]>> \in J
      <4>1. x \in T /\ h[1] \in {"clearRoles", "dropUser"} /\ x[2] \in Users
        <5>1. x \in T
          BY <3>4
        <5>2. QED
          BY <1>1, <3>4, <5>1, Parts DEF MayPrecede
      <4>2. user[x[2]] # "live" \/ <<"dropUser", x[2]>> \in I
        BY <2>1, <3>4, <4>1 DEF ChangesFollowed
      <4>3. CASE h[1] = "clearRoles"
        BY <4>1, <4>2, <4>3
      <4>4. CASE h[1] = "dropUser"
        <5>1. CASE x[2] = h[2]
          BY <4>4, <5>1
        <5>2. CASE x[2] # h[2]
          BY <4>1, <4>2, <4>4, <5>2
        <5>3. QED
          BY <5>1, <5>2
      <4>5. QED
        BY <4>1, <4>3, <4>4
    <3> HIDE DEF J
    <3>5. ASSUME NEW x \in J
          PROVE  /\ x[1] \in {"checkRole", "bind", "unbind", "createUser"} =>
                      <<"readRoles", x[2]>> \in J \/ <<"listRoles">> \in J
                 /\ x[1] \in {"seedRole", "seedMappings", "seedAdmin"} => <<"listRoles">> \in J
                 /\ x[1] = "clearRoles" => <<"dropUser", x[2]>> \in J
                 /\ x[1] = "filterGroupings" => user'[x[2]] # "live" \/ <<"dropUser", x[2]>> \in J
      BY <3>1, <3>2, <3>3, <3>4
    <3>6. QED
      BY <3>5, FollowedNext
  <2>5. DeletionsSpare(J)'
    <3>1. CASE h[1] \in {"countRoles", "unbind"}
      BY <2>1, <3>1
    <3>2. CASE h[1] \notin {"countRoles", "unbind"}
      <4>1. \A x \in J : x[1] \notin {"releaseRole", "dropRole"}
        BY <1>1, <3>2 DEF MayPrecede
      <4> HIDE DEF J
      <4>2. QED
        BY <4>1 DEF DeletionsSpare
    <3>3. QED
      BY <3>1, <3>2
  <2>6. AlignmentsRight(J)'
    <3>1. \A x \in J : x[1] # "align"
      BY <1>1
    <3> HIDE DEF J
    <3>2. QED
      BY <3>1 DEF AlignmentsRight
  <2>7. ProjectionDue(J)'
    <3> SUFFICES ASSUME clean' \/ Synchronises(J)
                 PROVE  /\ \A r \in Roles : PoliciesDue(J, r)'
                        /\ \A u \in Users : user'[u] = "live" => GroupingsDue(J, u)'
      BY DEF ProjectionDue, PoliciesDue, GroupingsDue, Synchronises
    <3>1. /\ \A r \in Roles : PoliciesDue(I, r)
          /\ \A u \in Users : user[u] = "live" => GroupingsDue(I, u)
      BY <1>3, <2>1 DEF ProjectionDue, PoliciesDue, GroupingsDue
    <3>2. QED
      BY <2>1, <3>1
  <2>8. QED
    BY <2>2, <2>3, <2>4, <2>5, <2>6, <2>7 DEF MakesGood
<1>5. ASSUME SeedsAdmin(I)
      PROVE  SeedsAdmin(J)'
  BY <1>5 DEF SeedsAdmin
<1>6. QED
  BY <1>4, <1>5 DEF Keeps

LEMMA GrantOK ==
  ASSUME RbacInv, NEW q \in Processes, Grant(q)
  PROVE  RbacInv'
<1>1. PICK h, T : h = Head(todo[q]) /\ T = Range(Tail(todo[q]))
  OBVIOUS
<1>2. todo[q] # << >> /\ h[1] = "grant"
  BY <1>1 DEF Grant, At
<1>3. Leads(h, T) /\ DataOK
  BY <1>1, <1>2, First
<1>4. PICK r, P : r = h[2] /\ P = h[3]
  OBVIOUS
<1>5. r \in Roles /\ P \in SUBSET Permissions
  BY <1>2, <1>3, <1>4, Parts DEF Leads
<1>6. CASE role[r] # "live"
  BY <1>1, <1>2, <1>4, <1>6, AbortOK DEF Grant, Arg
<1>7. CASE role[r] = "live"
  <2>1. /\ granted' = [granted EXCEPT ![r] = P]
        /\ Continue(q, << >>) /\ UNCHANGED <<role, user, bound, casbin, clean>>
    BY <1>1, <1>4, <1>7 DEF Grant, Arg, Proceed
  <2>2. DataOK'
    BY <1>3, <1>5, <1>7, <2>1 DEF DataOK, NewRolesBare, casbin
  <2>3. granted'[r] = P /\ \A s \in Roles : s = r \/ granted'[s] = granted[s]
    BY <1>3, <1>5, <2>1 DEF DataOK
  <2>4. h = <<"grant", r, P>>
    BY <1>2, <1>3, <1>4 DEF Leads, Instruction
  <2>5. ASSUME GrantsFollowed({h} \cup T), NEW s \in Roles, PoliciesDue({h} \cup T, s)
        PROVE  PoliciesDue({} \cup T, s)'
    <3>1. CASE s = r
      <4>1. \/ <<"listRoles">> \in {h} \cup T
            \/ \E y \in {h} \cup T : y[1] = "rereadRoles" /\ (y[2] = {} \/ r \in y[2])
            \/ <<"filterPolicies", r, P>> \in {h} \cup T
        BY <1>2, <1>4, <2>5 DEF GrantsFollowed
      <4>2. \/ <<"listRoles">> \in T
            \/ \E y \in T : y[1] = "rereadRoles" /\ (y[2] = {} \/ r \in y[2])
            \/ <<"filterPolicies", r, P>> \in T
        BY <1>2, <4>1
      <4>3. PoliciesRebuilt(T, r)'
        BY <1>7, <2>1, <4>2 DEF PoliciesRebuilt
      <4>4. QED
        BY <3>1, <4>3 DEF PoliciesDue
    <3>2. CASE s # r
      <4>1. SameForRole({h} \cup T, T, s)
        BY <1>2 DEF SameForRole, AboutPolicies
      <4>2. QED
        BY <2>1, <2>3, <2>5, <3>2, <4>1, PoliciesStay DEF casbin
    <3>3. QED
      BY <3>1, <3>2
  <2>6. ASSUME NEW u \in Users, GroupingsDue({h} \cup T, u)
        PROVE  GroupingsDue({} \cup T, u)'
    <3>1. SameForUser({h} \cup T, T, u)
      BY <1>2 DEF SameForUser, AboutGroupings
    <3>2. QED
      BY <2>1, <2>6, <3>1, GroupingsStay DEF casbin, LiveRoles
  <2>7. ASSUME SeedsAdmin({h} \cup T)
        PROVE  SeedsAdmin({} \cup T)'
    <3>1. r = Super => granted'[Super] = Permissions
      BY <1>2, <1>4, <2>3, <2>7 DEF SeedsAdmin
    <3>2. Super \in Roles /\ (r # Super => granted'[Super] = granted[Super])
      BY <2>3, SeedAssumption
    <3>3. h # <<"seedRole", Super>> /\ h # <<"seedAdmin">> /\ h # <<"seedMappings">>
          /\ h # <<"checkRole", Admin, Super>> /\ h # <<"bind", Admin, Super>>
          /\ (h = <<"grant", Super, Permissions>> => r = Super)
      BY <1>2, <1>4
    <3>4. Synchronises(T)
      BY <1>2, <2>7 DEF SeedsAdmin, Synchronises
    <3>5. QED
      BY <2>1, <2>7, <3>1, <3>2, <3>3, <3>4 DEF SeedsAdmin, Synchronises
  <2>8. Keeps(h, {}, T)
    BY <1>2, <1>3, <1>4, <1>7, <2>1, <2>3, <2>5, <2>6, <2>7, IamStep DEF IamOps
  <2>9. QED
    BY <1>1, <1>2, <2>1, <2>2, <2>8, None, Continues
<1>8. QED
  BY <1>6, <1>7

LEMMA CreateRoleOK ==
  ASSUME RbacInv, NEW q \in Processes, CreateRole(q)
  PROVE  RbacInv'
<1>1. PICK h, T : h = Head(todo[q]) /\ T = Range(Tail(todo[q]))
  OBVIOUS
<1>2. todo[q] # << >> /\ h[1] = "createRole"
  BY <1>1 DEF CreateRole, At
<1>3. Leads(h, T) /\ DataOK
  BY <1>1, <1>2, First
<1>4. PICK r : r = h[2]
  OBVIOUS
<1>5. r \in Roles
  BY <1>2, <1>3, <1>4, Parts DEF Leads
<1>6. CASE role[r] # "absent"
  BY <1>1, <1>2, <1>4, <1>6, AbortOK DEF CreateRole, Arg
<1>7. CASE role[r] = "absent"
  <2>1. /\ role' = [role EXCEPT ![r] = "live"]
        /\ Continue(q, << >>) /\ UNCHANGED <<granted, user, bound, casbin, clean>>
    BY <1>1, <1>4, <1>7 DEF CreateRole, Arg, Proceed
  <2>2. DataOK'
    BY <1>3, <1>5, <2>1 DEF DataOK, NewRolesBare, casbin
  <2>3. /\ role'[r] = "live" /\ \A s \in Roles : s = r \/ role'[s] = role[s]
        /\ granted[r] = {} /\ \A u \in Users : r \notin bound[u]
    BY <1>3, <1>5, <1>7, <2>1 DEF DataOK, NewRolesBare
  <2>4. ASSUME NEW s \in Roles, PoliciesDue({h} \cup T, s)
        PROVE  PoliciesDue({} \cup T, s)'
    <3>1. CASE s = r
      <4>1. PoliciesRebuilt({h} \cup T, r) => PoliciesRebuilt(T, r)'
        BY <1>2, <2>3 DEF PoliciesRebuilt
      <4>2. ASSUME PoliciesSettled({h} \cup T, r)
            PROVE  PoliciesSettled(T, r)'
        <5>1. Goal({h} \cup T, r) = {} /\ Goal(T, r)' = {}
          BY <1>7, <2>1, <2>3 DEF Goal, Policies
        <5>2. \A e : ~Adds(h, r, e) /\ ~Removes(h, r, e)
          BY <1>2 DEF Adds, Removes
        <5>3. QED
          BY <2>1, <4>2, <5>1, <5>2 DEF PoliciesSettled, casbin
      <4>3. QED
        BY <2>4, <3>1, <4>1, <4>2 DEF PoliciesDue
    <3>2. CASE s # r
      <4>1. SameForRole({h} \cup T, T, s)
        BY <1>2 DEF SameForRole, AboutPolicies
      <4>2. QED
        BY <2>1, <2>3, <2>4, <3>2, <4>1, PoliciesStay DEF casbin
    <3>3. QED
      BY <3>1, <3>2
  <2>5. ASSUME NEW u \in Users, GroupingsDue({h} \cup T, u)
        PROVE  GroupingsDue({} \cup T, u)'
    <3>1. SameForUser({h} \cup T, T, u)
      BY <1>2 DEF SameForUser, AboutGroupings
    <3>2. LiveRoles(u)' = LiveRoles(u)
      <4>1. bound'[u] = bound[u] /\ \A s \in bound[u] : role'[s] = role[s]
        BY <1>3, <2>1, <2>3 DEF DataOK
      <4>2. QED
        BY <4>1, LiveRolesStay
    <3>3. QED
      BY <2>1, <2>5, <3>1, <3>2, GroupingsStay DEF casbin
  <2>6. Keeps(h, {}, T)
    BY <1>2, <1>3, <2>1, <2>3, <2>4, <2>5, IamStep DEF IamOps, StartOps
  <2>7. QED
    BY <1>1, <1>2, <2>1, <2>2, <2>6, None, Continues
<1>8. QED
  BY <1>6, <1>7

\* A user with more than one role keeps a role without any given one.
LEMMA AnotherRole ==
  ASSUME DataOK, NEW u \in Users, Cardinality(LiveRoles(u)) > 1, NEW r
  PROVE  LiveRoles(u) \ {r} # {}
<1> SUFFICES ASSUME LiveRoles(u) \ {r} = {}
             PROVE  FALSE
  OBVIOUS
<1>1. IsFiniteSet({r}) /\ Cardinality({r}) = 1
  BY FS_Singleton
<1>2. LiveRoles(u) \subseteq {r}
  OBVIOUS
<1>3. Cardinality(LiveRoles(u)) <= Cardinality({r})
  BY <1>1, <1>2, FS_Subset
<1>4. Cardinality(LiveRoles(u)) \in Nat
  BY <1>1, <1>2, FS_Subset, FS_CardinalityType
<1>5. QED
  BY <1>1, <1>3, <1>4

LEMMA CountRolesOK ==
  ASSUME RbacInv, NEW q \in Processes, CountRoles(q)
  PROVE  RbacInv'
<1>1. PICK h, T : h = Head(todo[q]) /\ T = Range(Tail(todo[q]))
  OBVIOUS
<1>2. todo[q] # << >> /\ h[1] = "countRoles"
  BY <1>1 DEF CountRoles, At
<1>3. Leads(h, T) /\ DataOK
  BY <1>1, <1>2, First
<1>4. PICK u : u = h[2]
  OBVIOUS
<1>5. u \in Users /\ h = <<"countRoles", u>>
  BY <1>2, <1>3, <1>4, Parts DEF Leads, Instruction
<1>6. CASE ~(Cardinality(LiveRoles(u)) > 1)
  BY <1>1, <1>2, <1>4, <1>6, AbortOK DEF CountRoles, Arg
<1>7. CASE Cardinality(LiveRoles(u)) > 1
  <2>1. Continue(q, << >>) /\ UNCHANGED <<iam, casbin, clean>>
    BY <1>1, <1>4, <1>7 DEF CountRoles, Arg, Proceed
  <2>2. DataOK'
    BY <1>3, <2>1, SameData DEF DataOK
  <2>3. ASSUME DeletionsSpare({h} \cup T)
        PROVE  DeletionsSpare({} \cup T)'
    <3>1. role' = role /\ user' = user /\ bound' = bound /\ \A v : LiveRoles(v)' = LiveRoles(v)
      BY <2>1 DEF iam, LiveRoles
    <3>2. \A x \in T : x[1] # "dropRole"
      BY <1>2, <1>3 DEF Leads, MayPrecede
    <3>3. ASSUME NEW x \in T, x[1] = "releaseRole"
          PROVE  /\ x[3] = {v \in Users : user[v] = "live" /\ x[2] \in bound[v]}
                 /\ \A v \in x[3] : LiveRoles(v) \ {x[2]} # {} \/ <<"countRoles", v>> \in T
      <4>1. /\ x[3] = {v \in Users : user[v] = "live" /\ x[2] \in bound[v]}
            /\ \A v \in x[3] : LiveRoles(v) \ {x[2]} # {} \/ <<"countRoles", v>> \in {h} \cup T
        BY <2>3, <3>3 DEF DeletionsSpare
      <4>2. LiveRoles(u) \ {x[2]} # {}
        BY <1>3, <1>5, <1>7, AnotherRole
      <4>3. QED
        BY <1>5, <4>1, <4>2
    <3>4. QED
      BY <3>1, <3>2, <3>3 DEF DeletionsSpare
  <2>4. ASSUME NEW s \in Roles, PoliciesDue({h} \cup T, s)
        PROVE  PoliciesDue({} \cup T, s)'
    <3>1. SameForRole({h} \cup T, T, s)
      BY <1>2 DEF SameForRole, AboutPolicies
    <3>2. QED
      BY <2>1, <2>4, <3>1, PoliciesStay DEF iam, casbin
  <2>5. ASSUME NEW v \in Users, GroupingsDue({h} \cup T, v)
        PROVE  GroupingsDue({} \cup T, v)'
    <3>1. SameForUser({h} \cup T, T, v)
      BY <1>2 DEF SameForUser, AboutGroupings
    <3>2. QED
      BY <2>1, <2>5, <3>1, GroupingsStay DEF iam, casbin, LiveRoles
  <2>6. Keeps(h, {}, T)
    BY <1>2, <1>3, <2>1, <2>3, <2>4, <2>5, IamStep DEF IamOps, StartOps, iam
  <2>7. QED
    BY <1>1, <1>2, <2>1, <2>2, <2>6, None, Continues
<1>8. QED
  BY <1>6, <1>7

LEMMA DropRoleOK ==
  ASSUME RbacInv, NEW q \in Processes, DropRole(q)
  PROVE  RbacInv'
<1>1. PICK h, T : h = Head(todo[q]) /\ T = Range(Tail(todo[q]))
  OBVIOUS
<1>2. todo[q] # << >> /\ h[1] = "dropRole"
  BY <1>1 DEF DropRole, At
<1>3. Leads(h, T) /\ DataOK
  BY <1>1, <1>2, First
<1>4. PICK r : r = h[2]
  OBVIOUS
<1>5. r \in Roles /\ h = <<"dropRole", r>>
  BY <1>2, <1>3, <1>4, Parts DEF Leads, Instruction
<1>6. CASE role[r] # "live"
  BY <1>1, <1>2, <1>4, <1>6, AbortOK DEF DropRole, Arg
<1>7. CASE role[r] = "live"
  <2>1. /\ role' = [role EXCEPT ![r] = "deleted"]
        /\ Continue(q, << >>) /\ UNCHANGED <<granted, user, bound, casbin, clean>>
    BY <1>1, <1>4, <1>7 DEF DropRole, Arg, Proceed
  <2>2. DataOK'
    BY <1>3, <1>5, <2>1 DEF DataOK, NewRolesBare, casbin
  <2>3. role'[r] = "deleted" /\ \A s \in Roles : s = r \/ role'[s] = role[s]
    BY <1>3, <1>5, <2>1 DEF DataOK
  <2>4. \A x \in T : x[1] \in {"removePolicies", "removeGrouping", "readRoles"}
    BY <1>2, <1>3 DEF Leads, MayPrecede
  <2>5. ASSUME NEW s \in Roles, PoliciesDue({h} \cup T, s)
        PROVE  PoliciesDue({} \cup T, s)'
    <3>1. CASE s = r
      <4>1. PoliciesSettled({h} \cup T, r)
        BY <1>2, <2>4, <2>5, <3>1 DEF PoliciesDue, PoliciesRebuilt
      <4>2. Goal({h} \cup T, r) = {} /\ Goal(T, r)' = {}
        BY <1>5, <2>3 DEF Goal
      <4>3. \A e : ~Adds(h, r, e) /\ ~Removes(h, r, e)
        BY <1>2 DEF Adds, Removes
      <4>4. PoliciesSettled(T, r)'
        BY <2>1, <4>1, <4>2, <4>3 DEF PoliciesSettled, casbin
      <4>5. QED
        BY <3>1, <4>4 DEF PoliciesDue
    <3>2. CASE s # r
      <4>1. SameForRole({h} \cup T, T, s)
        BY <1>5, <3>2 DEF SameForRole, AboutPolicies
      <4>2. QED
        BY <2>1, <2>3, <2>5, <3>2, <4>1, PoliciesStay DEF casbin
    <3>3. QED
      BY <3>1, <3>2
  <2>6. ASSUME DeletionsSpare({h} \cup T), NEW u \in Users, user[u] = "live",
               GroupingsDue({h} \cup T, u)
        PROVE  GroupingsDue({} \cup T, u)'
    <3>1. CASE r \in bound[u]
      <4>1. <<"readRoles", u>> \in {h} \cup T
        BY <1>2, <1>4, <2>6, <3>1 DEF DeletionsSpare
      <4>2. GroupingsRebuilt(T, u)'
        BY <1>2, <4>1 DEF GroupingsRebuilt
      <4>3. QED
        BY <4>2 DEF GroupingsDue
    <3>2. CASE r \notin bound[u]
      <4>1. SameForUser({h} \cup T, T, u)
        BY <1>2 DEF SameForUser, AboutGroupings
      <4>2. LiveRoles(u)' = LiveRoles(u)
        <5>1. bound'[u] = bound[u] /\ \A s \in bound[u] : role'[s] = role[s]
          BY <1>3, <2>1, <2>3, <3>2 DEF DataOK
        <5>2. QED
          BY <5>1, LiveRolesStay
      <4>3. QED
        BY <2>1, <2>6, <4>1, <4>2, GroupingsStay DEF casbin
    <3>3. QED
      BY <3>1, <3>2
  <2>7. Keeps(h, {}, T)
    BY <1>2, <1>3, <2>1, <2>5, <2>6, IamStep DEF IamOps, StartOps
  <2>8. QED
    BY <1>1, <1>2, <2>1, <2>2, <2>7, None, Continues
<1>8. QED
  BY <1>6, <1>7

LEMMA CreateUserOK ==
  ASSUME RbacInv, NEW q \in Processes, CreateUser(q)
  PROVE  RbacInv'
<1>1. PICK h, T : h = Head(todo[q]) /\ T = Range(Tail(todo[q]))
  OBVIOUS
<1>2. todo[q] # << >> /\ h[1] = "createUser"
  BY <1>1 DEF CreateUser, At
<1>3. Leads(h, T) /\ DataOK
  BY <1>1, <1>2, First
<1>4. PICK u : u = h[2]
  OBVIOUS
<1>5. u \in Users /\ h = <<"createUser", u>>
  BY <1>2, <1>3, <1>4, Parts DEF Leads, Instruction
<1>6. CASE user[u] # "absent"
  BY <1>1, <1>2, <1>4, <1>6, AbortOK DEF CreateUser, Arg
<1>7. CASE user[u] = "absent"
  <2>1. /\ user' = [user EXCEPT ![u] = "live"]
        /\ Continue(q, << >>) /\ UNCHANGED <<role, granted, bound, casbin, clean>>
    BY <1>1, <1>4, <1>7 DEF CreateUser, Arg, Proceed
  <2>2. DataOK'
    BY <1>3, <1>5, <2>1 DEF DataOK, NewRolesBare, casbin
  <2>3. \A v \in Users : v = u \/ user'[v] = user[v]
    BY <1>3, <1>5, <2>1 DEF DataOK
  <2>4. ASSUME NEW s \in Roles, PoliciesDue({h} \cup T, s)
        PROVE  PoliciesDue({} \cup T, s)'
    <3>1. SameForRole({h} \cup T, T, s)
      BY <1>2 DEF SameForRole, AboutPolicies
    <3>2. QED
      BY <2>1, <2>4, <3>1, PoliciesStay DEF casbin
  <2>5. ASSUME ChangesFollowed({h} \cup T), NEW v \in Users, user'[v] = "live",
               user[v] = "live" => GroupingsDue({h} \cup T, v)
        PROVE  GroupingsDue({} \cup T, v)'
    <3>1. CASE v = u
      <4>1. <<"readRoles", u>> \in {h} \cup T \/ <<"listRoles">> \in {h} \cup T
        BY <1>2, <1>4, <2>5 DEF ChangesFollowed
      <4>2. GroupingsRebuilt(T, u)'
        BY <1>2, <4>1 DEF GroupingsRebuilt
      <4>3. QED
        BY <3>1, <4>2 DEF GroupingsDue
    <3>2. CASE v # u
      <4>1. SameForUser({h} \cup T, T, v)
        BY <1>2 DEF SameForUser, AboutGroupings
      <4>2. LiveRoles(v)' = LiveRoles(v)
        BY <2>1 DEF LiveRoles
      <4>3. QED
        BY <2>1, <2>5, <2>3, <3>2, <4>1, <4>2, GroupingsStay DEF casbin
    <3>3. QED
      BY <3>1, <3>2
  <2>6. Keeps(h, {}, T)
    BY <1>2, <1>3, <2>1, <2>4, <2>5, IamStep DEF IamOps, StartOps
  <2>7. QED
    BY <1>1, <1>2, <2>1, <2>2, <2>6, None, Continues
<1>8. QED
  BY <1>6, <1>7

LEMMA ClearRolesOK ==
  ASSUME RbacInv, NEW q \in Processes, ClearRoles(q)
  PROVE  RbacInv'
<1>1. PICK h, T : h = Head(todo[q]) /\ T = Range(Tail(todo[q]))
  OBVIOUS
<1>2. todo[q] # << >> /\ h[1] = "clearRoles"
  BY <1>1 DEF ClearRoles, At
<1>3. Leads(h, T) /\ DataOK
  BY <1>1, <1>2, First
<1>4. PICK u : u = h[2]
  OBVIOUS
<1>5. u \in Users /\ h = <<"clearRoles", u>>
  BY <1>2, <1>3, <1>4, Parts DEF Leads, Instruction
<1>6. /\ bound' = [bound EXCEPT ![u] = {}]
      /\ Continue(q, << >>) /\ UNCHANGED <<role, granted, user, casbin, clean>>
  BY <1>1, <1>4 DEF ClearRoles, Arg, Proceed
<1>7. DataOK' /\ \A v \in Users : v = u \/ bound'[v] = bound[v]
  BY <1>3, <1>5, <1>6 DEF DataOK, NewRolesBare, casbin
<1>8. ASSUME NEW s \in Roles, PoliciesDue({h} \cup T, s)
      PROVE  PoliciesDue({} \cup T, s)'
  <2>1. SameForRole({h} \cup T, T, s)
    BY <1>2 DEF SameForRole, AboutPolicies
  <2>2. QED
    BY <1>6, <1>8, <2>1, PoliciesStay DEF casbin
<1>9. ASSUME ChangesFollowed({h} \cup T), NEW v \in Users, GroupingsDue({h} \cup T, v)
      PROVE  GroupingsDue({} \cup T, v)'
  <2>1. CASE v = u
    <3>1. <<"dropUser", u>> \in {h} \cup T
      BY <1>2, <1>4, <1>9 DEF ChangesFollowed
    <3>2. GroupingsRebuilt(T, u)'
      BY <1>2, <3>1 DEF GroupingsRebuilt
    <3>3. QED
      BY <2>1, <3>2 DEF GroupingsDue
  <2>2. CASE v # u
    <3>1. SameForUser({h} \cup T, T, v)
      BY <1>2 DEF SameForUser, AboutGroupings
    <3>2. LiveRoles(v)' = LiveRoles(v)
      BY <1>6, <1>7, <2>2 DEF LiveRoles
    <3>3. QED
      BY <1>6, <1>9, <3>1, <3>2, GroupingsStay DEF casbin
  <2>3. QED
    BY <2>1, <2>2
<1>10. Keeps(h, {}, T)
  BY <1>2, <1>3, <1>6, <1>8, <1>9, IamStep DEF IamOps, StartOps
<1>11. QED
  BY <1>1, <1>2, <1>6, <1>7, <1>10, None, Continues

LEMMA DropUserOK ==
  ASSUME RbacInv, NEW q \in Processes, DropUser(q)
  PROVE  RbacInv'
<1>1. PICK h, T : h = Head(todo[q]) /\ T = Range(Tail(todo[q]))
  OBVIOUS
<1>2. todo[q] # << >> /\ h[1] = "dropUser"
  BY <1>1 DEF DropUser, At
<1>3. Leads(h, T) /\ DataOK
  BY <1>1, <1>2, First
<1>4. PICK u : u = h[2]
  OBVIOUS
<1>5. u \in Users /\ h = <<"dropUser", u>>
  BY <1>2, <1>3, <1>4, Parts DEF Leads, Instruction
<1>6. CASE user[u] # "live"
  BY <1>1, <1>2, <1>4, <1>6, AbortOK DEF DropUser, Arg
<1>7. CASE user[u] = "live"
  <2>1. /\ user' = [user EXCEPT ![u] = "deleted"]
        /\ Continue(q, << >>) /\ UNCHANGED <<role, granted, bound, casbin, clean>>
    BY <1>1, <1>4, <1>7 DEF DropUser, Arg, Proceed
  <2>2. DataOK'
    BY <1>3, <1>5, <2>1 DEF DataOK, NewRolesBare, casbin
  <2>3. user'[u] = "deleted" /\ \A v \in Users : v = u \/ user'[v] = user[v]
    BY <1>3, <1>5, <2>1 DEF DataOK
  <2>4. ASSUME NEW s \in Roles, PoliciesDue({h} \cup T, s)
        PROVE  PoliciesDue({} \cup T, s)'
    <3>1. SameForRole({h} \cup T, T, s)
      BY <1>2 DEF SameForRole, AboutPolicies
    <3>2. QED
      BY <2>1, <2>4, <3>1, PoliciesStay DEF casbin
  <2>5. ASSUME NEW v \in Users, user'[v] = "live",
               user[v] = "live" => GroupingsDue({h} \cup T, v)
        PROVE  GroupingsDue({} \cup T, v)'
    <3>1. v # u
      BY <2>3, <2>5
    <3>2. SameForUser({h} \cup T, T, v)
      BY <1>5, <3>1 DEF SameForUser, AboutGroupings
    <3>3. QED
      BY <2>1, <2>3, <2>5, <3>1, <3>2, GroupingsStay DEF casbin, LiveRoles
  <2>6. Keeps(h, {}, T)
    BY <1>2, <1>3, <1>4, <2>1, <2>3, <2>4, <2>5, IamStep DEF IamOps, StartOps
  <2>7. QED
    BY <1>1, <1>2, <2>1, <2>2, <2>6, None, Continues
<1>8. QED
  BY <1>6, <1>7

LEMMA UnbindOK ==
  ASSUME RbacInv, NEW q \in Processes, Unbind(q)
  PROVE  RbacInv'
<1>1. PICK h, T : h = Head(todo[q]) /\ T = Range(Tail(todo[q]))
  OBVIOUS
<1>2. todo[q] # << >> /\ h[1] = "unbind"
  BY <1>1 DEF Unbind, At
<1>3. Leads(h, T) /\ DataOK
  BY <1>1, <1>2, First
<1>4. PICK u, r : u = h[2] /\ r = h[3]
  OBVIOUS
<1>5. u \in Users /\ r \in Roles /\ h = <<"unbind", u, r>>
  BY <1>2, <1>3, <1>4, Parts DEF Leads, Instruction
<1>6. CASE ~Exist(u, r)
  BY <1>1, <1>2, <1>4, <1>6, AbortOK DEF Unbind, Arg
<1>7. CASE Exist(u, r)
  <2>1. /\ bound' = [bound EXCEPT ![u] = @ \ {r}]
        /\ Continue(q, << >>) /\ UNCHANGED <<role, granted, user, casbin, clean>>
    BY <1>1, <1>4, <1>7 DEF Unbind, Arg, Proceed
  <2>2. DataOK'
    BY <1>3, <1>5, <2>1 DEF DataOK, NewRolesBare, casbin
  <2>3. bound'[u] = bound[u] \ {r} /\ \A v \in Users : v = u \/ bound'[v] = bound[v]
    BY <1>3, <1>5, <2>1 DEF DataOK
  <2>4. ASSUME DeletionsSpare({h} \cup T)
        PROVE  DeletionsSpare({} \cup T)'
    <3>1. \A x \in T : x[1] # "releaseRole"
      BY <1>2, <1>3 DEF Leads, MayPrecede
    <3>2. ASSUME NEW x \in T, x[1] = "dropRole"
          PROVE  /\ \A v \in Users : user'[v] = "live" /\ x[2] \in bound'[v] =>
                      LiveRoles(v)' \ {x[2]} # {} /\ <<"readRoles", v>> \in T
                 /\ \A y \in T : y[1] = "unbind" => y[3] = x[2]
      <4>1. /\ \A v \in Users : user[v] = "live" /\ x[2] \in bound[v] =>
                 LiveRoles(v) \ {x[2]} # {} /\ <<"readRoles", v>> \in {h} \cup T
            /\ \A y \in {h} \cup T : y[1] = "unbind" => y[3] = x[2]
        BY <2>4, <3>2 DEF DeletionsSpare
      <4>2. x[2] = r
        BY <1>2, <1>4, <4>1
      <4>3. ASSUME NEW v \in Users, user'[v] = "live", x[2] \in bound'[v]
            PROVE  LiveRoles(v)' \ {x[2]} # {} /\ <<"readRoles", v>> \in T
        <5>1. v # u /\ user[v] = "live" /\ x[2] \in bound[v]
          BY <2>1, <2>3, <4>2, <4>3
        <5>2. LiveRoles(v)' = LiveRoles(v)
          BY <2>1, <2>3, <5>1 DEF LiveRoles
        <5>3. QED
          BY <1>2, <4>1, <5>1, <5>2
      <4>4. QED
        BY <4>1, <4>3
    <3>3. QED
      BY <3>1, <3>2 DEF DeletionsSpare
  <2>5. ASSUME NEW s \in Roles, PoliciesDue({h} \cup T, s)
        PROVE  PoliciesDue({} \cup T, s)'
    <3>1. SameForRole({h} \cup T, T, s)
      BY <1>2 DEF SameForRole, AboutPolicies
    <3>2. QED
      BY <2>1, <2>5, <3>1, PoliciesStay DEF casbin
  <2>6. ASSUME ChangesFollowed({h} \cup T), NEW v \in Users, GroupingsDue({h} \cup T, v)
        PROVE  GroupingsDue({} \cup T, v)'
    <3>1. CASE v = u
      <4>1. <<"readRoles", u>> \in {h} \cup T \/ <<"listRoles">> \in {h} \cup T
        BY <1>2, <1>4, <2>6 DEF ChangesFollowed
      <4>2. GroupingsRebuilt(T, u)'
        BY <1>2, <4>1 DEF GroupingsRebuilt
      <4>3. QED
        BY <3>1, <4>2 DEF GroupingsDue
    <3>2. CASE v # u
      <4>1. SameForUser({h} \cup T, T, v)
        BY <1>2 DEF SameForUser, AboutGroupings
      <4>2. LiveRoles(v)' = LiveRoles(v)
        BY <2>1, <2>3, <3>2 DEF LiveRoles
      <4>3. QED
        BY <2>1, <2>6, <3>2, <4>1, <4>2, GroupingsStay DEF casbin
    <3>3. QED
      BY <3>1, <3>2
  <2>7. Keeps(h, {}, T)
    BY <1>2, <1>3, <2>1, <2>4, <2>5, <2>6, IamStep DEF IamOps, StartOps
  <2>8. QED
    BY <1>1, <1>2, <2>1, <2>2, <2>7, None, Continues
<1>8. QED
  BY <1>6, <1>7

LEMMA CheckRoleOK ==
  ASSUME RbacInv, NEW q \in Processes, CheckRole(q)
  PROVE  RbacInv'
<1>1. PICK h, T : h = Head(todo[q]) /\ T = Range(Tail(todo[q]))
  OBVIOUS
<1>2. todo[q] # << >> /\ h[1] = "checkRole"
  BY <1>1 DEF CheckRole, At
<1>3. Leads(h, T) /\ DataOK
  BY <1>1, <1>2, First
<1>4. PICK u, r : u = h[2] /\ r = h[3]
  OBVIOUS
<1>5. u \in Users /\ r \in Roles /\ h = <<"checkRole", u, r>>
  BY <1>2, <1>3, <1>4, Parts DEF Leads, Instruction
<1>6. CASE ~Exist(u, r)
  BY <1>1, <1>2, <1>4, <1>6, AbortOK DEF CheckRole, Arg
<1>7. CASE Exist(u, r)
  <2>1. PICK before : before = IF r \in bound[u] THEN << >> ELSE << <<"bind", u, r>> >>
    OBVIOUS
  <2>2. PICK B : B = IF r \in bound[u] THEN {} ELSE {<<"bind", u, r>>}
    OBVIOUS
  <2>3. Continue(q, before) /\ UNCHANGED <<iam, casbin, clean>>
    BY <1>1, <1>4, <1>7, <2>1 DEF CheckRole, Arg
  <2>4. before \in Seq(Instruction) /\ Range(before) = B /\ Ordered(before)
    <3>1. CASE r \in bound[u]
      BY <2>1, <2>2, <3>1, None
    <3>2. CASE r \notin bound[u]
      <4>1. <<"bind", u, r>> \in Instruction
        BY <1>5, Instructions
      <4>2. QED
        BY <2>1, <2>2, <3>2, <4>1, One
    <3>3. QED
      BY <3>1, <3>2
  <2>5. \A x \in B : x = <<"bind", u, r>> /\ x[1] = "bind" /\ x[2] = u /\ x[3] = r
    BY <2>2
  <2>6. \A x \in B, y \in T : MayPrecede(x[1], y[1])
    BY <1>2, <1>3, <2>5 DEF Leads, MayPrecede, IamOps, PolicyOps, Closing, Leading
  <2>7. DataOK'
    BY <1>3, <2>3, SameData DEF DataOK
  <2>8. ASSUME NEW s \in Roles, PoliciesDue({h} \cup T, s)
        PROVE  PoliciesDue(B \cup T, s)'
    <3>1. SameForRole({h} \cup T, B \cup T, s)
      BY <1>2, <2>5 DEF SameForRole, AboutPolicies
    <3>2. QED
      BY <2>3, <2>8, <3>1, PoliciesStay DEF iam, casbin
  <2>9. ASSUME NEW v \in Users, GroupingsDue({h} \cup T, v)
        PROVE  GroupingsDue(B \cup T, v)'
    <3>1. SameForUser({h} \cup T, B \cup T, v)
      BY <1>2, <2>5 DEF SameForUser, AboutGroupings
    <3>2. QED
      BY <2>3, <2>9, <3>1, GroupingsStay DEF iam, casbin, LiveRoles
  <2>10. ASSUME SeedsAdmin({h} \cup T)
         PROVE  SeedsAdmin(B \cup T)'
    <3>1. Synchronises(B \cup T)
      BY <1>2, <2>10 DEF SeedsAdmin, Synchronises
    <3>2. /\ h # <<"seedRole", Super>> /\ h # <<"seedAdmin">> /\ h # <<"seedMappings">>
          /\ h # <<"grant", Super, Permissions>> /\ h # <<"bind", Admin, Super>>
      BY <1>2
    <3>3. h = <<"checkRole", Admin, Super>> =>
            Super \in bound[Admin] \/ <<"bind", Admin, Super>> \in B
      BY <1>4, <2>2
    <3>4. \A x \in B \cup T :
            x[1] \in StartOps /\ (x[1] = "grant" /\ x[2] = Super => x[3] = Permissions)
      BY <2>5, <2>10 DEF SeedsAdmin, StartOps
    <3>5. role' = role /\ granted' = granted /\ user' = user /\ bound' = bound
      BY <2>3 DEF iam
    <3>6. QED
      BY <2>10, <3>1, <3>2, <3>3, <3>4, <3>5 DEF SeedsAdmin, Synchronises
  <2>11. Keeps(h, B, T)
    BY <1>2, <1>3, <1>5, <2>3, <2>5, <2>8, <2>9, <2>10, IamStep DEF IamOps, iam
  <2>12. QED
    BY <1>1, <1>2, <2>3, <2>4, <2>6, <2>7, <2>11, Continues
<1>8. QED
  BY <1>6, <1>7

LEMMA BindOK ==
  ASSUME RbacInv, NEW q \in Processes, Bind(q)
  PROVE  RbacInv'
<1>1. PICK h, T : h = Head(todo[q]) /\ T = Range(Tail(todo[q]))
  OBVIOUS
<1>2. todo[q] # << >> /\ h[1] = "bind"
  BY <1>1 DEF Bind, At
<1>3. Leads(h, T) /\ DataOK
  BY <1>1, <1>2, First
<1>4. PICK u, r : u = h[2] /\ r = h[3]
  OBVIOUS
<1>5. u \in Users /\ r \in Roles /\ h = <<"bind", u, r>>
  BY <1>2, <1>3, <1>4, Parts DEF Leads, Instruction
<1>6. CASE ~(Exist(u, r) /\ r \notin bound[u])
  BY <1>1, <1>2, <1>4, <1>6, AbortOK DEF Bind, Arg
<1>7. CASE Exist(u, r) /\ r \notin bound[u]
  <2>1. /\ bound' = [bound EXCEPT ![u] = @ \cup {r}]
        /\ Continue(q, << >>) /\ UNCHANGED <<role, granted, user, casbin, clean>>
    BY <1>1, <1>4, <1>7 DEF Bind, Arg, Proceed
  <2>2. DataOK'
    BY <1>3, <1>5, <1>7, <2>1 DEF DataOK, NewRolesBare, casbin, Exist
  <2>3. bound'[u] = bound[u] \cup {r} /\ \A v \in Users : v = u \/ bound'[v] = bound[v]
    BY <1>3, <1>5, <2>1 DEF DataOK
  <2>4. ASSUME NEW s \in Roles, PoliciesDue({h} \cup T, s)
        PROVE  PoliciesDue({} \cup T, s)'
    <3>1. SameForRole({h} \cup T, T, s)
      BY <1>2 DEF SameForRole, AboutPolicies
    <3>2. QED
      BY <2>1, <2>4, <3>1, PoliciesStay DEF casbin
  <2>5. ASSUME ChangesFollowed({h} \cup T), NEW v \in Users, GroupingsDue({h} \cup T, v)
        PROVE  GroupingsDue({} \cup T, v)'
    <3>1. CASE v = u
      <4>1. <<"readRoles", u>> \in {h} \cup T \/ <<"listRoles">> \in {h} \cup T
        BY <1>2, <1>4, <2>5 DEF ChangesFollowed
      <4>2. GroupingsRebuilt(T, u)'
        BY <1>2, <4>1 DEF GroupingsRebuilt
      <4>3. QED
        BY <3>1, <4>2 DEF GroupingsDue
    <3>2. CASE v # u
      <4>1. SameForUser({h} \cup T, T, v)
        BY <1>2 DEF SameForUser, AboutGroupings
      <4>2. LiveRoles(v)' = LiveRoles(v)
        BY <2>1, <2>3, <3>2 DEF LiveRoles
      <4>3. QED
        BY <2>1, <2>5, <3>2, <4>1, <4>2, GroupingsStay DEF casbin
    <3>3. QED
      BY <3>1, <3>2
  <2>6. ASSUME SeedsAdmin({h} \cup T)
        PROVE  SeedsAdmin({} \cup T)'
    <3>1. Synchronises(T)
      BY <1>2, <2>6 DEF SeedsAdmin, Synchronises
    <3>2. /\ h # <<"seedRole", Super>> /\ h # <<"seedAdmin">> /\ h # <<"seedMappings">>
          /\ h # <<"grant", Super, Permissions>> /\ h # <<"checkRole", Admin, Super>>
      BY <1>2
    <3>3. Super \in bound[Admin] \/ h = <<"bind", Admin, Super>> => Super \in bound'[Admin]
      BY <1>4, <2>3, SeedAssumption
    <3>4. QED
      BY <2>1, <2>6, <3>1, <3>2, <3>3 DEF SeedsAdmin, Synchronises
  <2>7. Keeps(h, {}, T)
    BY <1>2, <1>3, <2>1, <2>4, <2>5, <2>6, IamStep DEF IamOps
  <2>8. QED
    BY <1>1, <1>2, <2>1, <2>2, <2>7, None, Continues
<1>8. QED
  BY <1>6, <1>7

LEMMA SeedRoleOK ==
  ASSUME RbacInv, NEW q \in Processes, SeedRole(q)
  PROVE  RbacInv'
<1>1. PICK h, T : h = Head(todo[q]) /\ T = Range(Tail(todo[q]))
  OBVIOUS
<1>2. todo[q] # << >> /\ h[1] = "seedRole"
  BY <1>1 DEF SeedRole, At
<1>3. Leads(h, T) /\ DataOK
  BY <1>1, <1>2, First
<1>4. PICK r : r = h[2]
  OBVIOUS
<1>5. r \in Roles
  BY <1>2, <1>3, <1>4, Parts DEF Leads
<1>6. /\ role' = [role EXCEPT ![r] = "live"]
      /\ Continue(q, << >>) /\ UNCHANGED <<granted, user, bound, casbin, clean>>
  BY <1>1, <1>4 DEF SeedRole, Arg, Proceed
<1>7. DataOK' /\ role'[r] = "live" /\ \A s \in Roles : s = r \/ role'[s] = role[s]
  BY <1>3, <1>5, <1>6 DEF DataOK, NewRolesBare, casbin
<1>8. ASSUME ChangesFollowed({h} \cup T)
      PROVE  /\ \A s \in Roles : PoliciesDue({} \cup T, s)'
             /\ \A u \in Users : GroupingsDue({} \cup T, u)'
  <2>1. <<"listRoles">> \in T
    <3>1. <<"listRoles">> \in {h} \cup T
      BY <1>2, <1>8 DEF ChangesFollowed
    <3>2. QED
      BY <1>2, <3>1
  <2>2. QED
    BY <2>1 DEF PoliciesDue, GroupingsDue, PoliciesRebuilt, GroupingsRebuilt
<1>9. ASSUME SeedsAdmin({h} \cup T)
      PROVE  SeedsAdmin({} \cup T)'
  <2>1. Synchronises(T)
    BY <1>2, <1>9 DEF SeedsAdmin, Synchronises
  <2>2. /\ h # <<"seedAdmin">> /\ h # <<"seedMappings">> /\ h # <<"grant", Super, Permissions>>
        /\ h # <<"checkRole", Admin, Super>> /\ h # <<"bind", Admin, Super>>
    BY <1>2
  <2>3. role[Super] = "live" \/ h = <<"seedRole", Super>> => role'[Super] = "live"
    BY <1>4, <1>7, SeedAssumption
  <2>4. QED
    BY <1>6, <1>9, <2>1, <2>2, <2>3 DEF SeedsAdmin, Synchronises
<1>10. Keeps(h, {}, T)
  BY <1>2, <1>3, <1>6, <1>7, <1>8, <1>9, IamStep DEF IamOps
<1>11. QED
  BY <1>1, <1>2, <1>6, <1>7, <1>10, None, Continues

LEMMA SeedAdminOK ==
  ASSUME RbacInv, NEW q \in Processes, SeedAdmin(q)
  PROVE  RbacInv'
<1>1. PICK h, T : h = Head(todo[q]) /\ T = Range(Tail(todo[q]))
  OBVIOUS
<1>2. todo[q] # << >> /\ h[1] = "seedAdmin"
  BY <1>1 DEF SeedAdmin, At
<1>3. Leads(h, T) /\ DataOK
  BY <1>1, <1>2, First
<1>4. /\ user' = [user EXCEPT ![Admin] = "live"]
      /\ Continue(q, << >>) /\ UNCHANGED <<role, granted, bound, casbin, clean>>
  BY <1>1 DEF SeedAdmin, Proceed
<1>5. DataOK' /\ user'[Admin] = "live"
  BY <1>3, <1>4, SeedAssumption DEF DataOK, NewRolesBare, casbin
<1>6. ASSUME ChangesFollowed({h} \cup T)
      PROVE  /\ \A s \in Roles : PoliciesDue({} \cup T, s)'
             /\ \A u \in Users : GroupingsDue({} \cup T, u)'
  <2>1. <<"listRoles">> \in T
    <3>1. <<"listRoles">> \in {h} \cup T
      BY <1>2, <1>6 DEF ChangesFollowed
    <3>2. QED
      BY <1>2, <3>1
  <2>2. QED
    BY <2>1 DEF PoliciesDue, GroupingsDue, PoliciesRebuilt, GroupingsRebuilt
<1>7. ASSUME SeedsAdmin({h} \cup T)
      PROVE  SeedsAdmin({} \cup T)'
  <2>1. Synchronises(T)
    BY <1>2, <1>7 DEF SeedsAdmin, Synchronises
  <2>2. /\ h # <<"seedRole", Super>> /\ h # <<"seedMappings">>
        /\ h # <<"grant", Super, Permissions>>
        /\ h # <<"checkRole", Admin, Super>> /\ h # <<"bind", Admin, Super>>
    BY <1>2
  <2>3. QED
    BY <1>4, <1>5, <1>7, <2>1, <2>2 DEF SeedsAdmin, Synchronises
<1>8. Keeps(h, {}, T)
  BY <1>2, <1>3, <1>4, <1>6, <1>7, IamStep DEF IamOps
<1>9. QED
  BY <1>1, <1>2, <1>4, <1>5, <1>8, None, Continues

LEMMA SeedMappingsOK ==
  ASSUME RbacInv, NEW q \in Processes, SeedMappings(q)
  PROVE  RbacInv'
<1>1. PICK h, T : h = Head(todo[q]) /\ T = Range(Tail(todo[q]))
  OBVIOUS
<1>2. todo[q] # << >> /\ h[1] = "seedMappings"
  BY <1>1 DEF SeedMappings, At
<1>3. Leads(h, T) /\ DataOK
  BY <1>1, <1>2, First
<1>4. PICK S : S = IF \A r \in Roles : role[r] = "live" => granted[r] = {} THEN Preset ELSE {Super}
  OBVIOUS
<1>5. PICK f : f = [r \in S |-> <<"grant", r, Defaults[r]>>]
  OBVIOUS
<1>6. Continue(q, ForEach(f)) /\ UNCHANGED <<iam, casbin, clean>>
  BY <1>4, <1>5 DEF SeedMappings
<1>7. S \subseteq Preset /\ Super \in S /\ S \subseteq Roles /\ IsFiniteSet(S)
  BY <1>4, SeedAssumption, Finite
<1>8. PICK B : B = {<<"grant", r, Defaults[r]>> : r \in S}
  OBVIOUS
<1>9. f \in [S -> Instruction]
  <2>1. \A r \in S : <<"grant", r, Defaults[r]>> \in Instruction
    BY <1>7, SeedAssumption, Instructions
  <2>2. QED
    BY <1>5, <2>1
<1>10. ForEach(f) \in Seq(Instruction) /\ Range(ForEach(f)) = B
  <2>1. ForEach(f) \in Seq(Instruction) /\ Range(ForEach(f)) = {f[r] : r \in S}
    BY <1>7, <1>9, LoopOver
  <2>2. {f[r] : r \in S} = B
    BY <1>5, <1>8
  <2>3. QED
    BY <2>1, <2>2
<1>11. \A x \in B : x[1] = "grant" /\ x[2] \in S /\ x[3] = Defaults[x[2]]
  BY <1>8
<1>12. Ordered(ForEach(f))
  <2>1. \A x, y \in B : MayPrecede(x[1], y[1])
    BY <1>11 DEF MayPrecede, IamOps, PolicyOps, Closing, Leading
  <2>2. QED
    BY <1>10, <2>1, FreelyOrdered
<1>13. \A y \in T : y[1] \in {"seedAdmin", "checkRole", "listRoles"}
  BY <1>2, <1>3 DEF Leads, MayPrecede
<1>14. \A x \in B, y \in T : MayPrecede(x[1], y[1])
  BY <1>11, <1>13 DEF MayPrecede, IamOps, PolicyOps, Closing, Leading
<1>15. DataOK'
  BY <1>3, <1>6, SameData DEF DataOK
<1>16. ASSUME NEW s \in Roles, PoliciesDue({h} \cup T, s)
       PROVE  PoliciesDue(B \cup T, s)'
  <2>1. SameForRole({h} \cup T, B \cup T, s)
    BY <1>2, <1>11 DEF SameForRole, AboutPolicies
  <2>2. QED
    BY <1>6, <1>16, <2>1, PoliciesStay DEF iam, casbin
<1>17. ASSUME NEW v \in Users, GroupingsDue({h} \cup T, v)
       PROVE  GroupingsDue(B \cup T, v)'
  <2>1. SameForUser({h} \cup T, B \cup T, v)
    BY <1>2, <1>11 DEF SameForUser, AboutGroupings
  <2>2. QED
    BY <1>6, <1>17, <2>1, GroupingsStay DEF iam, casbin, LiveRoles
<1>18. ASSUME SeedsAdmin({h} \cup T)
       PROVE  SeedsAdmin(B \cup T)'
  <2>1. Synchronises(B \cup T)
    BY <1>2, <1>18 DEF SeedsAdmin, Synchronises
  <2>2. <<"grant", Super, Permissions>> \in B
    BY <1>7, <1>8, SeedAssumption
  <2>3. /\ h # <<"seedRole", Super>> /\ h # <<"seedAdmin">>
        /\ h # <<"checkRole", Admin, Super>> /\ h # <<"bind", Admin, Super>>
    BY <1>2
  <2>4. \A x \in B \cup T :
          x[1] \in StartOps /\ (x[1] = "grant" /\ x[2] = Super => x[3] = Permissions)
    BY <1>11, <1>18, SeedAssumption DEF SeedsAdmin, StartOps
  <2>5. role' = role /\ granted' = granted /\ user' = user /\ bound' = bound
    BY <1>6 DEF iam
  <2>6. QED
    BY <1>18, <2>1, <2>2, <2>3, <2>4, <2>5 DEF SeedsAdmin, Synchronises
<1>19. Keeps(h, B, T)
  BY <1>2, <1>3, <1>6, <1>11, <1>16, <1>17, <1>18, IamStep DEF IamOps, iam
<1>20. QED
  BY <1>1, <1>2, <1>6, <1>10, <1>12, <1>14, <1>15, <1>19, Continues

\* A loop whose instructions may come in any order.
LEMMA Loop ==
  ASSUME NEW S, IsFiniteSet(S), NEW f \in [S -> Instruction], NEW A, A = {f[x] : x \in S},
         \A x, y \in A : MayPrecede(x[1], y[1])
  PROVE  ForEach(f) \in Seq(Instruction) /\ Ordered(ForEach(f)) /\ Range(ForEach(f)) = A
<1>1. ForEach(f) \in Seq(Instruction) /\ Range(ForEach(f)) = A
  BY LoopOver
<1>2. Ordered(ForEach(f))
  BY <1>1, FreelyOrdered
<1>3. QED
  BY <1>1, <1>2

\* One list after another.
LEMMA Joins ==
  ASSUME NEW s \in Seq(Instruction), NEW t \in Seq(Instruction), Ordered(s), Ordered(t),
         \A x \in Range(s), y \in Range(t) : MayPrecede(x[1], y[1])
  PROVE  /\ s \o t \in Seq(Instruction) /\ Ordered(s \o t)
         /\ Range(s \o t) = Range(s) \cup Range(t)
  BY Joined, JoinedOrdered

LEMMA UsersOfRoleOK ==
  ASSUME RbacInv, NEW q \in Processes, UsersOfRole(q)
  PROVE  RbacInv'
<1>1. PICK h, T : h = Head(todo[q]) /\ T = Range(Tail(todo[q]))
  OBVIOUS
<1>2. todo[q] # << >> /\ h[1] = "usersOfRole"
  BY <1>1 DEF UsersOfRole, At
<1>3. Leads(h, T) /\ DataOK /\ T = {}
  BY <1>1, <1>2, First DEF Leads, MayPrecede, Closing
<1>4. PICK r, actor, users : /\ r = h[2] /\ actor = h[3]
                             /\ users = {u \in Users : user[u] = "live" /\ r \in bound[u]}
  OBVIOUS
<1>5. r \in Roles /\ actor \in Users /\ users \in SUBSET Users
  BY <1>2, <1>3, <1>4, Parts DEF Leads
<1>6. CASE role[r] # "live"
  BY <1>1, <1>2, <1>4, <1>6, AbortOK DEF UsersOfRole, Arg
<1>7. CASE role[r] = "live"
  <2>1. PICK f, x : /\ f = [u \in users |-> <<"countRoles", u>>]
                    /\ x = <<"releaseRole", r, users, actor>>
    OBVIOUS
  <2>2. Continue(q, ForEach(f) \o << x >>) /\ UNCHANGED <<iam, casbin, clean>>
    BY <1>1, <1>4, <1>7, <2>1 DEF UsersOfRole, Arg
  <2>3. PICK A, B : A = {<<"countRoles", u>> : u \in users} /\ B = A \cup {x}
    OBVIOUS
  <2>4. /\ ForEach(f) \in Seq(Instruction) /\ Ordered(ForEach(f)) /\ Range(ForEach(f)) = A
        /\ \A y \in A : y[1] = "countRoles"
    <3>1. f \in [users -> Instruction]
      BY <1>5, <2>1, Instructions
    <3>2. A = {f[u] : u \in users} /\ IsFiniteSet(users)
      BY <1>5, <2>1, <2>3, Finite
    <3>3. \A y \in A : y[1] = "countRoles"
      BY <2>3
    <3>4. \A y, z \in A : MayPrecede(y[1], z[1])
      BY <3>3 DEF MayPrecede, IamOps, PolicyOps, Closing, Leading
    <3>5. QED
      BY <3>1, <3>2, <3>3, <3>4, Loop
  <2>5. x \in Instruction /\ x[1] = "releaseRole" /\ x[2] = r /\ x[3] = users
    BY <1>5, <2>1, Instructions
  <2>6. /\ ForEach(f) \o << x >> \in Seq(Instruction) /\ Ordered(ForEach(f) \o << x >>)
        /\ Range(ForEach(f) \o << x >>) = B
    <3>1. \A y \in A : MayPrecede(y[1], x[1])
      BY <2>4, <2>5 DEF MayPrecede, IamOps, PolicyOps, Closing, Leading
    <3>2. QED
      BY <2>3, <2>4, <2>5, <3>1, Then
  <2>7. DataOK'
    BY <1>3, <2>2, SameData DEF DataOK
  <2>8. \A y \in B : y[1] \in {"countRoles", "releaseRole"} /\ (y[1] = "releaseRole" => y = x)
    BY <2>3, <2>4, <2>5
  <2>9. ASSUME MakesGood({h})
        PROVE  MakesGood(B)'
    <3>1. /\ role' = role /\ user' = user /\ bound' = bound
          /\ \A u : LiveRoles(u)' = LiveRoles(u)
      BY <2>2 DEF iam, LiveRoles
    <3>2. GrantsFollowed(B)' /\ ReplacementsRight(B)' /\ ChangesFollowed(B)' /\ AlignmentsRight(B)'
      BY <2>8 DEF GrantsFollowed, ReplacementsRight, ChangesFollowed, AlignmentsRight
    <3>3. DeletionsSpare(B)'
      <4>1. \A u \in users : <<"countRoles", u>> \in B
        BY <2>3
      <4>2. QED
        BY <1>4, <2>5, <2>8, <3>1, <4>1 DEF DeletionsSpare
    <3>4. ASSUME clean
          PROVE  /\ \A s \in Roles : PoliciesDue(B, s)'
                 /\ \A u \in Users : user[u] = "live" => GroupingsDue(B, u)'
      <4>1. /\ \A s \in Roles : PoliciesDue({h}, s)
            /\ \A u \in Users : user[u] = "live" => GroupingsDue({h}, u)
        BY <2>9, <3>4 DEF MakesGood, ProjectionDue, PoliciesDue, GroupingsDue
      <4>2. \A s \in Roles : SameForRole({h}, B, s)
        BY <1>2, <2>8 DEF SameForRole, AboutPolicies
      <4>3. \A u \in Users : SameForUser({h}, B, u)
        BY <1>2, <2>8 DEF SameForUser, AboutGroupings
      <4>4. QED
        BY <2>2, <3>1, <4>1, <4>2, <4>3, PoliciesStay, GroupingsStay DEF iam, casbin
    <3>5. ProjectionDue(B)'
      BY <2>2, <2>8, <3>1, <3>4 DEF ProjectionDue, Synchronises, PoliciesDue, GroupingsDue
    <3>6. QED
      BY <3>2, <3>3, <3>5 DEF MakesGood
  <2>10. Keeps(h, B, T)
    <3>1. ~SeedsAdmin({h})
      BY <1>2 DEF SeedsAdmin, StartOps
    <3>2. QED
      BY <1>3, <2>9, <3>1 DEF Keeps
  <2>11. QED
    BY <1>1, <1>2, <1>3, <2>2, <2>6, <2>7, <2>10, Continues
<1>8. QED
  BY <1>6, <1>7

LEMMA ReleaseRoleOK ==
  ASSUME RbacInv, NEW q \in Processes, ReleaseRole(q)
  PROVE  RbacInv'
<1>1. PICK h, T : h = Head(todo[q]) /\ T = Range(Tail(todo[q]))
  OBVIOUS
<1>2. todo[q] # << >> /\ h[1] = "releaseRole"
  BY <1>1 DEF ReleaseRole, At
<1>3. Leads(h, T) /\ DataOK /\ T = {}
  BY <1>1, <1>2, First DEF Leads, MayPrecede, Closing
<1>4. PICK r, users, actor : r = h[2] /\ users = h[3] /\ actor = h[4]
  OBVIOUS
<1>5. r \in Roles /\ actor \in Users /\ users \in SUBSET Users /\ IsFiniteSet(users)
  BY <1>2, <1>3, <1>4, Parts, Finite DEF Leads
<1>6. CASE role[r] # "live"
  BY <1>1, <1>2, <1>4, <1>6, AbortOK DEF ReleaseRole, Arg
<1>7. CASE role[r] = "live"
  <2>1. PICK old : old = Policies(granted[r])
    OBVIOUS
  <2>2. old \in SUBSET Endpoints /\ IsFiniteSet(old)
    BY <1>3, <1>5, <2>1, PoliciesType, Finite DEF DataOK
  <2>3. PICK f1, f2, f3, f4 : /\ f1 = [u \in users |-> <<"unbind", u, r>>]
                              /\ f2 = [e \in old |-> <<"removePolicies", Of(r, {e})>>]
                              /\ f3 = [u \in users |-> <<"removeGrouping", u, r>>]
                              /\ f4 = [u \in users |-> <<"readRoles", u>>]
    OBVIOUS
  <2>4. PICK x, y : x = <<"dropRole", r>> /\ y = <<"readRoles", actor>>
    OBVIOUS
  <2>5. PICK s1, s2, s3, s4 : /\ s1 = ForEach(f1) /\ s2 = ForEach(f2)
                              /\ s3 = ForEach(f3) /\ s4 = ForEach(f4)
    OBVIOUS
  <2>6. PICK l1, l2, l3, l4, list : /\ l1 = s1 \o << x >> /\ l2 = l1 \o s2
                                    /\ l3 = l2 \o s3 /\ l4 = l3 \o s4 /\ list = l4 \o << y >>
    BY Zenon
  <2>7. Continue(q, list) /\ UNCHANGED <<iam, casbin, clean>>
    BY <1>1, <1>4, <1>7, <2>1, <2>3, <2>4, <2>5, <2>6, Zenon
    DEF ReleaseRole, Arg, EnsureAll, Ensure
  <2>8. PICK A1, A2, A3, A4 : /\ A1 = {<<"unbind", u, r>> : u \in users}
                              /\ A2 = {<<"removePolicies", Of(r, {e})>> : e \in old}
                              /\ A3 = {<<"removeGrouping", u, r>> : u \in users}
                              /\ A4 = {<<"readRoles", u>> : u \in users}
    OBVIOUS
  <2>9. /\ \A a \in A1 : a[1] = "unbind" /\ a[2] \in users /\ a[3] = r
        /\ \A a \in A2 : a[1] = "removePolicies" /\ \E e \in old : a[2] = Of(r, {e})
        /\ \A a \in A3 : a[1] = "removeGrouping" /\ a[2] \in users /\ a[3] = r
        /\ \A a \in A4 : a[1] = "readRoles" /\ a[2] \in users
    <3>1. \A a \in A1 : a[1] = "unbind" /\ a[2] \in users /\ a[3] = r
      BY <2>8
    <3>2. ASSUME NEW a \in A2
          PROVE  a[1] = "removePolicies" /\ \E e \in old : a[2] = Of(r, {e})
      <4>1. PICK e \in old : a = <<"removePolicies", Of(r, {e})>>
        BY <2>8
      <4>2. a[1] = "removePolicies" /\ a[2] = Of(r, {e})
        BY <4>1
      <4>3. QED
        BY <4>2
    <3>3. \A a \in A3 : a[1] = "removeGrouping" /\ a[2] \in users /\ a[3] = r
      BY <2>8
    <3>4. \A a \in A4 : a[1] = "readRoles" /\ a[2] \in users
      BY <2>8
    <3>5. QED
      BY <3>1, <3>2, <3>3, <3>4
  <2>10. /\ x[1] = "dropRole" /\ x[2] = r /\ x \in Instruction
         /\ y[1] = "readRoles" /\ y[2] = actor /\ y \in Instruction
    BY <1>5, <2>4, Instructions
  <2>11. /\ s1 \in Seq(Instruction) /\ Ordered(s1) /\ Range(s1) = A1
         /\ s2 \in Seq(Instruction) /\ Ordered(s2) /\ Range(s2) = A2
         /\ s3 \in Seq(Instruction) /\ Ordered(s3) /\ Range(s3) = A3
         /\ s4 \in Seq(Instruction) /\ Ordered(s4) /\ Range(s4) = A4
    <3>1. s1 \in Seq(Instruction) /\ Ordered(s1) /\ Range(s1) = A1
      <4>1. f1 \in [users -> Instruction] /\ A1 = {f1[u] : u \in users}
        BY <1>5, <2>3, <2>8, Instructions
      <4>2. \A a, b \in A1 : MayPrecede(a[1], b[1])
        BY <2>9 DEF MayPrecede, IamOps, PolicyOps, Closing, Leading
      <4>3. QED
        BY <1>5, <2>5, <4>1, <4>2, Loop
    <3>2. s2 \in Seq(Instruction) /\ Ordered(s2) /\ Range(s2) = A2
      <4>1. f2 \in [old -> Instruction] /\ A2 = {f2[e] : e \in old}
        <5>1. \A e \in old : <<"removePolicies", Of(r, {e})>> \in Instruction
          <6>1. \A e \in old : Of(r, {e}) \in [Roles -> SUBSET Endpoints]
            BY <1>5, <2>2 DEF Of
          <6>2. QED
            BY <6>1, Instructions
        <5>2. QED
          BY <2>3, <2>8, <5>1
      <4>2. \A a, b \in A2 : MayPrecede(a[1], b[1])
        BY <2>9 DEF MayPrecede, IamOps, PolicyOps, Closing, Leading
      <4>3. QED
        BY <2>2, <2>5, <4>1, <4>2, Loop
    <3>3. s3 \in Seq(Instruction) /\ Ordered(s3) /\ Range(s3) = A3
      <4>1. f3 \in [users -> Instruction] /\ A3 = {f3[u] : u \in users}
        BY <1>5, <2>3, <2>8, Instructions
      <4>2. \A a, b \in A3 : MayPrecede(a[1], b[1])
        BY <2>9 DEF MayPrecede, IamOps, PolicyOps, Closing, Leading
      <4>3. QED
        BY <1>5, <2>5, <4>1, <4>2, Loop
    <3>4. s4 \in Seq(Instruction) /\ Ordered(s4) /\ Range(s4) = A4
      <4>1. f4 \in [users -> Instruction] /\ A4 = {f4[u] : u \in users}
        BY <1>5, <2>3, <2>8, Instructions
      <4>2. \A a, b \in A4 : MayPrecede(a[1], b[1])
        BY <2>9 DEF MayPrecede, IamOps, PolicyOps, Closing, Leading
      <4>3. QED
        BY <1>5, <2>5, <4>1, <4>2, Loop
    <3>5. QED
      BY <3>1, <3>2, <3>3, <3>4
  <2>12. PICK B : B = A1 \cup {x} \cup A2 \cup A3 \cup A4 \cup {y}
    OBVIOUS
  <2>13. list \in Seq(Instruction) /\ Ordered(list) /\ Range(list) = B
    <3>1. l1 \in Seq(Instruction) /\ Ordered(l1) /\ Range(l1) = A1 \cup {x}
      <4>1. \A a \in A1 : MayPrecede(a[1], x[1])
        BY <2>9, <2>10 DEF MayPrecede, IamOps, PolicyOps, Closing, Leading
      <4>2. QED
        BY <2>6, <2>10, <2>11, <4>1, Then
    <3>2. l2 \in Seq(Instruction) /\ Ordered(l2) /\ Range(l2) = Range(l1) \cup A2
      <4>1. \A a \in Range(l1), b \in A2 : MayPrecede(a[1], b[1])
        BY <2>9, <2>10, <3>1 DEF MayPrecede, IamOps, PolicyOps, Closing, Leading
      <4>2. QED
        BY <2>6, <2>11, <3>1, <4>1, Joins
    <3>3. l3 \in Seq(Instruction) /\ Ordered(l3) /\ Range(l3) = Range(l2) \cup A3
      <4>1. \A a \in Range(l2), b \in A3 : MayPrecede(a[1], b[1])
        BY <2>9, <2>10, <3>1, <3>2 DEF MayPrecede, IamOps, PolicyOps, Closing, Leading
      <4>2. QED
        BY <2>6, <2>11, <3>2, <4>1, Joins
    <3>4. l4 \in Seq(Instruction) /\ Ordered(l4) /\ Range(l4) = Range(l3) \cup A4
      <4>1. \A a \in Range(l3), b \in A4 : MayPrecede(a[1], b[1])
        BY <2>9, <2>10, <3>1, <3>2, <3>3 DEF MayPrecede, IamOps, PolicyOps, Closing, Leading
      <4>2. QED
        BY <2>6, <2>11, <3>3, <4>1, Joins
    <3>5. \A a \in Range(l4) : MayPrecede(a[1], y[1])
      BY <2>9, <2>10, <3>1, <3>2, <3>3, <3>4 DEF MayPrecede, IamOps, PolicyOps, Closing, Leading
    <3>6. list \in Seq(Instruction) /\ Ordered(list) /\ Range(list) = Range(l4) \cup {y}
      BY <2>6, <2>10, <3>4, <3>5, Then
    <3>7. QED
      BY <2>12, <3>1, <3>2, <3>3, <3>4, <3>6
  <2>14. DataOK'
    BY <1>3, <2>7, SameData DEF DataOK
  <2>15. /\ \A a \in B : a[1] \in {"unbind", "dropRole", "removePolicies",
                                 "removeGrouping", "readRoles"}
         /\ \A a \in B : a[1] = "unbind" => a[2] \in users /\ a[3] = r
         /\ \A a \in B : a[1] = "dropRole" => a[2] = r
         /\ \A a \in B : a[1] = "removePolicies" => \E e \in old : a[2] = Of(r, {e})
         /\ \A a \in B : a[1] \in {"removeGrouping", "readRoles"} => a[2] \in users \/ a = y
    BY <2>9, <2>10, <2>12
  <2>16. /\ <<"dropRole", r>> \in B /\ <<"readRoles", actor>> \in B
         /\ \A u \in users : <<"readRoles", u>> \in B
         /\ \A e \in old : <<"removePolicies", Of(r, {e})>> \in B
    BY <2>4, <2>8, <2>12
  <2>17. /\ role' = role /\ granted' = granted /\ user' = user /\ bound' = bound /\ p' = p /\ g' = g
         /\ clean' = clean /\ \A u : LiveRoles(u)' = LiveRoles(u)
    BY <2>7 DEF iam, casbin, LiveRoles
  <2>18. ASSUME PoliciesDue({h}, r)
         PROVE  PoliciesDue(B, r)'
    <3>1. PoliciesSettled({h}, r)
      BY <1>2, <2>18 DEF PoliciesDue, PoliciesRebuilt
    <3>2. Goal({h}, r) = old /\ Goal(B, r)' = {}
      BY <1>2, <1>7, <2>1, <2>16 DEF Goal
    <3>3. \A e : ~Adds(h, r, e)
      BY <1>2 DEF Adds
    <3>4. \A e \in Endpoints : e \in p[r] => e \in old
      BY <1>2, <3>1, <3>2 DEF PoliciesSettled, Removes
    <3>5. ASSUME NEW e \in old
          PROVE  \E a \in B : Removes(a, r, e)
      <4>1. Removes(<<"removePolicies", Of(r, {e})>>, r, e)
        BY <1>5 DEF Removes, Of
      <4>2. QED
        BY <2>16, <4>1
    <3>6. \A a \in B : \A e : ~Adds(a, r, e)
      BY <2>15 DEF Adds
    <3>7. PoliciesSettled(B, r)'
      BY <2>17, <3>2, <3>4, <3>5, <3>6 DEF PoliciesSettled
    <3>8. QED
      BY <3>7 DEF PoliciesDue
  <2>19. ASSUME NEW s \in Roles, s # r, PoliciesDue({h}, s)
         PROVE  PoliciesDue(B, s)'
    <3>1. \A e : Of(r, {e})[s] = {}
      BY <2>19 DEF Of
    <3>2. SameForRole({h}, B, s)
      BY <1>2, <2>15, <2>19, <3>1 DEF SameForRole, AboutPolicies
    <3>3. QED
      BY <2>17, <2>19, <3>2, PoliciesStay
  <2>20. ASSUME NEW u \in Users, GroupingsDue({h}, u)
         PROVE  GroupingsDue(B, u)'
    <3>1. CASE u \in users \/ u = actor
      <4>1. GroupingsRebuilt(B, u)'
        BY <2>16, <3>1 DEF GroupingsRebuilt
      <4>2. QED
        BY <4>1 DEF GroupingsDue
    <3>2. CASE ~(u \in users \/ u = actor)
      <4>1. SameForUser({h}, B, u)
        BY <1>2, <2>10, <2>15, <3>2 DEF SameForUser, AboutGroupings
      <4>2. QED
        BY <2>17, <2>20, <4>1, GroupingsStay
    <3>3. QED
      BY <3>1, <3>2
  <2>21. ASSUME MakesGood({h})
         PROVE  MakesGood(B)'
    <3>1. GrantsFollowed(B)' /\ ReplacementsRight(B)' /\ AlignmentsRight(B)'
      BY <2>15 DEF GrantsFollowed, ReplacementsRight, AlignmentsRight
    <3>2. ChangesFollowed(B)'
      BY <2>15, <2>16 DEF ChangesFollowed
    <3>3. DeletionsSpare(B)'
      <4>1. /\ users = {u \in Users : user[u] = "live" /\ r \in bound[u]}
            /\ \A u \in users : LiveRoles(u) \ {r} # {}
        BY <1>2, <1>4, <2>21 DEF MakesGood, DeletionsSpare
      <4>2. QED
        BY <2>15, <2>16, <2>17, <4>1 DEF DeletionsSpare
    <3>4. ProjectionDue(B)'
      <4>1. ~Synchronises(B) /\ ~Synchronises({h})
        BY <1>2, <2>15 DEF Synchronises
      <4>2. ASSUME clean
            PROVE  /\ \A s \in Roles : PoliciesDue({h}, s)
                   /\ \A u \in Users : user[u] = "live" => GroupingsDue({h}, u)
        BY <2>21, <4>2 DEF MakesGood, ProjectionDue, PoliciesDue, GroupingsDue
      <4>3. ASSUME clean
            PROVE  /\ \A s \in Roles : PoliciesDue(B, s)'
                   /\ \A u \in Users : user'[u] = "live" => GroupingsDue(B, u)'
        BY <2>17, <2>18, <2>19, <2>20, <4>2, <4>3
      <4>4. QED
        BY <2>17, <4>1, <4>3 DEF ProjectionDue, PoliciesDue, GroupingsDue, Synchronises
    <3>5. QED
      BY <3>1, <3>2, <3>3, <3>4 DEF MakesGood
  <2>22. Keeps(h, B, T)
    <3>1. ~SeedsAdmin({h})
      BY <1>2 DEF SeedsAdmin, StartOps
    <3>2. QED
      BY <1>3, <2>21, <3>1 DEF Keeps
  <2>23. QED
    BY <1>1, <1>2, <1>3, <2>7, <2>13, <2>14, <2>22, Continues
<1>8. QED
  BY <1>6, <1>7

-----------------------------------------------------------------------------
(* Calls, one by one *)

CallOps == {"grant", "filterPolicies", "createRole", "usersOfRole", "createUser",
            "checkRole", "unbind",
            "rereadRoles", "readRoles", "clearRoles", "dropUser", "filterGroupings", "listRoles"}

\* A call whose changes are followed by what they require, whatever it found.
LEMMA CallStep ==
  ASSUME NEW L, UNCHANGED <<iam, casbin, clean>>,
         \A x \in L : x[1] \in CallOps,
         GrantsFollowed(L),
         \A x \in L : x[1] = "filterPolicies" =>
           /\ <<"grant", x[2], x[3]>> \in L
           /\ \A y \in L : y[1] = "grant" /\ y[2] = x[2] => y[3] = x[3],
         \A x \in L :
           /\ x[1] \in {"checkRole", "unbind", "createUser"} => <<"readRoles", x[2]>> \in L
           /\ x[1] \in {"clearRoles", "filterGroupings"} => <<"dropUser", x[2]>> \in L
  PROVE  DataOK /\ MakesGood({}) => MakesGood(L)'
<1> SUFFICES ASSUME DataOK, MakesGood({})
             PROVE  MakesGood(L)'
  OBVIOUS
<1>1. GrantsFollowed(L)' /\ ReplacementsRight(L)'
  BY DEF GrantsFollowed, ReplacementsRight
<1>2. ChangesFollowed(L)'
  <2>1. ASSUME NEW x \in L
        PROVE  /\ x[1] \in {"checkRole", "bind", "unbind", "createUser"} =>
                    <<"readRoles", x[2]>> \in L \/ <<"listRoles">> \in L
               /\ x[1] \in {"seedRole", "seedMappings", "seedAdmin"} => <<"listRoles">> \in L
               /\ x[1] = "clearRoles" => <<"dropUser", x[2]>> \in L
               /\ x[1] = "filterGroupings" => user'[x[2]] # "live" \/ <<"dropUser", x[2]>> \in L
    BY DEF CallOps
  <2>2. QED
    BY <2>1, FollowedNext
<1>3. DeletionsSpare(L)' /\ AlignmentsRight(L)'
  BY DEF DeletionsSpare, AlignmentsRight, CallOps
<1>4. CASE Synchronises(L)
  <2>1. \E x \in L : x[1] = "listRoles"
    BY <1>4 DEF Synchronises, CallOps
  <2>2. ProjectionDue(L)'
    BY <2>1 DEF ProjectionDue, PoliciesRebuilt, GroupingsRebuilt
  <2>3. QED
    BY <1>1, <1>2, <1>3, <2>2 DEF MakesGood
<1>5. CASE ~Synchronises(L)
  <2> SUFFICES ASSUME clean'
               PROVE  /\ \A r \in Roles : PoliciesSettled(L, r)'
                      /\ \A u \in Users : user'[u] = "live" => GroupingsSettled(L, u)'
    BY <1>1, <1>2, <1>3, <1>5 DEF MakesGood, ProjectionDue, Synchronises
  <2>1. /\ \A r \in Roles : PoliciesSettled({}, r)
        /\ \A u \in Users : user[u] = "live" => GroupingsSettled({}, u)
    BY DEF MakesGood, ProjectionDue, PoliciesRebuilt, GroupingsRebuilt
  <2>2. ASSUME NEW r \in Roles
        PROVE  PoliciesSettled(L, r)'
    <3>1. \A x \in L : \A e : ~Adds(x, r, e) /\ ~Removes(x, r, e)
      BY DEF Adds, Removes, CallOps
    <3>2. <<"dropRole", r>> \notin L
      BY DEF CallOps
    <3>3. Goal(L, r)' = Goal({}, r)
      BY <3>2 DEF Goal, iam
    <3>4. QED
      BY <2>1, <3>1, <3>3 DEF PoliciesSettled, casbin
  <2>3. ASSUME NEW u \in Users, user'[u] = "live"
        PROVE  GroupingsSettled(L, u)'
    <3>1. \A r : <<"removeGrouping", u, r>> \notin L /\ <<"addGrouping", u, r>> \notin L
      BY DEF CallOps
    <3>2. LiveRoles(u)' = LiveRoles(u) /\ g' = g /\ user' = user
      BY DEF LiveRoles, iam, casbin
    <3>3. GroupingsSettled({}, u)
      BY <2>1, <2>3, <3>2
    <3>4. QED
      BY <3>1, <3>2, <3>3 DEF GroupingsSettled
  <2>4. QED
    BY <2>2, <2>3
<1>6. QED
  BY <1>4, <1>5

LEMMA Pair ==
  ASSUME NEW x \in Instruction, NEW y \in Instruction, MayPrecede(x[1], y[1])
  PROVE  /\ << x >> \o << y >> \in Seq(Instruction) /\ Ordered(<< x >> \o << y >>)
         /\ Range(<< x >> \o << y >>) = {x, y}
<1>1. << x >> \in Seq(Instruction) /\ Range(<< x >>) = {x} /\ Ordered(<< x >>)
  BY One
<1>2. QED
  BY <1>1, Then

LEMMA Chain ==
  ASSUME NEW x \in Instruction, NEW y \in Instruction, NEW z \in Instruction,
         MayPrecede(x[1], y[1]), MayPrecede(x[1], z[1]), MayPrecede(y[1], z[1])
  PROVE  /\ (<< x >> \o << y >>) \o << z >> \in Seq(Instruction)
         /\ Ordered((<< x >> \o << y >>) \o << z >>)
         /\ Range((<< x >> \o << y >>) \o << z >>) = {x, y, z}
<1>1. PICK s : s = << x >> \o << y >>
  BY Zenon
<1>2. s \in Seq(Instruction) /\ Ordered(s) /\ Range(s) = {x, y}
  BY <1>1, Pair, Zenon
<1>3. \A a \in Range(s) : MayPrecede(a[1], z[1])
  BY <1>2
<1>4. s \o << z >> \in Seq(Instruction) /\ Ordered(s \o << z >>)
      /\ Range(s \o << z >>) = Range(s) \cup {z}
  BY <1>2, <1>3, Then, Zenon
<1>5. Range(s) \cup {z} = {x, y, z}
  BY <1>2
<1>6. QED
  BY <1>1, <1>4, <1>5, Zenon

LEMMA UpdateRolePermissionsOK ==
  ASSUME RbacInv, NEW q \in Requests, NEW actor \in Users, NEW r \in Roles,
         NEW P \in SUBSET Permissions, UpdateRolePermissions(q, actor, r, P)
  PROVE  RbacInv'
<1>1. PICK x, y, z : /\ x = <<"grant", r, P>> /\ y = <<"filterPolicies", r, P>>
                     /\ z = <<"readRoles", actor>>
  OBVIOUS
<1>2. x \in Instruction /\ y \in Instruction /\ z \in Instruction
  BY <1>1, Instructions
<1>3. MayPrecede(x[1], y[1]) /\ MayPrecede(x[1], z[1]) /\ MayPrecede(y[1], z[1])
  BY <1>1 DEF MayPrecede, IamOps, PolicyOps, Closing, Leading
<1>4. PICK list : list = (<< x >> \o << y >>) \o << z >> /\ Call(q, "UpdateRolePermissions", list)
  BY <1>1, Zenon DEF UpdateRolePermissions, Replace, Ensure
<1>5. PICK L : L = {x, y, z}
  OBVIOUS
<1>6. UNCHANGED <<iam, casbin, clean>>
  BY <1>4 DEF Call
<1>7. \A a \in L : a = x \/ a = y \/ a = z
  BY <1>5
<1>8. x \in L /\ y \in L /\ z \in L
  BY <1>5
<1>9. /\ \A a \in L : a[1] \in CallOps \ {"checkRole", "unbind", "createUser",
                                   "clearRoles", "filterGroupings"}
      /\ \A a \in L : a[1] = "grant" => a[2] = r /\ a[3] = P
      /\ \A a \in L : a[1] = "filterPolicies" => a[2] = r /\ a[3] = P
  BY <1>1, <1>7 DEF CallOps
<1>10. DataOK /\ MakesGood({}) => MakesGood(L)'
  <2>1. GrantsFollowed(L)
    BY <1>1, <1>8, <1>9 DEF GrantsFollowed
  <2>2. QED
    BY <1>1, <1>6, <1>8, <1>9, <2>1, CallStep
<1>11. QED
  <2>1. list \in Seq(Instruction) /\ Ordered(list) /\ Range(list) = L
    BY <1>2, <1>3, <1>4, <1>5, Chain, Zenon
  <2>2. QED
    BY <1>4, <1>10, <2>1, CallOK

LEMMA ResetRolePermissionsOK ==
  ASSUME RbacInv, NEW q \in Requests, NEW actor \in Users, NEW S \in SUBSET Roles,
         ResetRolePermissions(q, actor, S)
  PROVE  RbacInv'
<1>1. PICK x, y, R : /\ x = <<"rereadRoles", S>> /\ y = <<"readRoles", actor>>
                     /\ R = IF S = {} THEN Preset ELSE S
  OBVIOUS
<1>2. x \in Instruction /\ y \in Instruction /\ R \in SUBSET Roles /\ IsFiniteSet(R)
  BY <1>1, SeedAssumption, Finite, Instructions
<1>3. PICK f : f = [r \in R |-> <<"grant", r, IF r \in Preset THEN Defaults[r] ELSE {}>>]
  OBVIOUS
<1>4. PICK A, L : A = {f[r] : r \in R} /\ L = A \cup {x} \cup {y}
  OBVIOUS
<1>5. PICK s : s = ForEach(f)
  OBVIOUS
<1>6. Call(q, "ResetRolePermissions", (s \o << x >>) \o << y >>)
  BY <1>1, <1>3, <1>5, Zenon DEF ResetRolePermissions, Ensure
<1>7. f \in [R -> Instruction] /\ \A r \in R : f[r][1] = "grant" /\ f[r][2] = r
  <2>1. ASSUME NEW r \in R
        PROVE  <<"grant", r, IF r \in Preset THEN Defaults[r] ELSE {}>> \in Instruction
    BY <1>2, SeedAssumption, Instructions
  <2>2. QED
    BY <1>3, <2>1
<1>8. \A a \in A : a[1] = "grant" /\ a[2] \in R
  BY <1>4, <1>7
<1>9. s \in Seq(Instruction) /\ Ordered(s) /\ Range(s) = A
  <2>1. \A a, b \in A : MayPrecede(a[1], b[1])
    BY <1>8 DEF MayPrecede, IamOps, PolicyOps, Closing, Leading
  <2>2. f \in [R -> Instruction] /\ A = {f[r] : r \in R} /\ IsFiniteSet(R)
    BY <1>2, <1>4, <1>7
  <2>3. ForEach(f) \in Seq(Instruction) /\ Ordered(ForEach(f)) /\ Range(ForEach(f)) = A
    BY <2>1, <2>2, Loop, Zenon
  <2>4. QED
    BY <1>5, <2>3
<1>10. PICK t : t = s \o << x >>
  BY Zenon
<1>11. t \in Seq(Instruction) /\ Ordered(t) /\ Range(t) = A \cup {x}
  <2>1. \A a \in Range(s) : MayPrecede(a[1], x[1])
    BY <1>1, <1>8, <1>9 DEF MayPrecede, IamOps, PolicyOps, Closing, Leading
  <2>2. QED
    BY <1>2, <1>9, <1>10, <2>1, Then, Zenon
<1>12. t \o << y >> \in Seq(Instruction) /\ Ordered(t \o << y >>) /\ Range(t \o << y >>) = L
  <2>1. \A a \in Range(t) : MayPrecede(a[1], y[1])
    BY <1>1, <1>8, <1>11 DEF MayPrecede, IamOps, PolicyOps, Closing, Leading
  <2>2. QED
    BY <1>2, <1>4, <1>11, <2>1, Then, Zenon
<1>13. DataOK /\ MakesGood({}) => MakesGood(L)'
  <2>1. \A a \in L : a[1] \in {"grant", "rereadRoles", "readRoles"}
                      /\ (a[1] = "grant" => a[2] \in R)
    BY <1>1, <1>4, <1>8
  <2>2. x \in L /\ x[1] = "rereadRoles" /\ x[2] = S
    BY <1>1, <1>4
  <2>3. GrantsFollowed(L)
    BY <1>1, <2>1, <2>2 DEF GrantsFollowed
  <2>4. UNCHANGED <<iam, casbin, clean>>
    BY <1>6 DEF Call
  <2>5. QED
    BY <2>1, <2>3, <2>4, CallStep DEF CallOps
<1>14. QED
  BY <1>6, <1>10, <1>12, <1>13, CallOK, Zenon

LEMMA CreateIAMRoleOK ==
  ASSUME RbacInv, NEW q \in Requests, NEW actor \in Users, NEW r \in Roles,
         NEW P \in SUBSET Permissions, CreateIAMRole(q, actor, r, P)
  PROVE  RbacInv'
<1>1. PICK x, y, z, a : /\ x = <<"createRole", r>> /\ y = <<"grant", r, P>>
                        /\ z = <<"filterPolicies", r, P>> /\ a = <<"readRoles", actor>>
  OBVIOUS
<1>2. x \in Instruction /\ y \in Instruction /\ z \in Instruction /\ a \in Instruction
  BY <1>1, Instructions
<1>3. /\ MayPrecede(x[1], y[1]) /\ MayPrecede(x[1], z[1]) /\ MayPrecede(x[1], a[1])
      /\ MayPrecede(y[1], z[1]) /\ MayPrecede(y[1], a[1]) /\ MayPrecede(z[1], a[1])
  BY <1>1 DEF MayPrecede, IamOps, PolicyOps, Closing, Leading
<1>4. UNCHANGED <<iam, casbin, clean>>
  BY DEF CreateIAMRole, Call
<1>5. CASE P = {}
  <2>1. PICK L : L = {x, a}
    OBVIOUS
  <2>2. PICK t : t = << x >> \o << >>
    BY Zenon
  <2>3. t = << x >>
    BY <1>2, <2>2
  <2>4. Call(q, "CreateIAMRole", << x >> \o << a >>)
    BY <1>1, <1>5, <2>2, <2>3, Zenon DEF CreateIAMRole, Ensure
  <2>5. /\ << x >> \o << a >> \in Seq(Instruction) /\ Ordered(<< x >> \o << a >>)
        /\ Range(<< x >> \o << a >>) = L
    BY <1>2, <1>3, <2>1, Pair, Zenon
  <2>6. \A b \in L : b[1] \in {"createRole", "readRoles"}
    BY <1>1, <2>1
  <2>7. GrantsFollowed(L)
    BY <2>6 DEF GrantsFollowed
  <2>8. DataOK /\ MakesGood({}) => MakesGood(L)'
    BY <1>4, <2>6, <2>7, CallStep DEF CallOps
  <2>9. QED
    BY <2>4, <2>5, <2>8, CallOK, Zenon
<1>6. CASE P # {}
  <2>1. PICK L : L = {x} \cup {y, z} \cup {a}
    OBVIOUS
  <2>2. PICK s, t : s = << y >> \o << z >> /\ t = << x >> \o s
    BY Zenon
  <2>3. Call(q, "CreateIAMRole", t \o << a >>)
    BY <1>1, <1>6, <2>2, Zenon DEF CreateIAMRole, Ensure, Replace
  <2>4. s \in Seq(Instruction) /\ Ordered(s) /\ Range(s) = {y, z}
    BY <1>2, <1>3, <2>2, Pair, Zenon
  <2>5. << x >> \in Seq(Instruction) /\ Ordered(<< x >>) /\ Range(<< x >>) = {x}
    BY <1>2, One, Zenon
  <2>6. t \in Seq(Instruction) /\ Ordered(t) /\ Range(t) = {x} \cup {y, z}
    <3>1. \A b \in Range(<< x >>), c \in Range(s) : MayPrecede(b[1], c[1])
      BY <1>3, <2>4, <2>5
    <3>2. QED
      BY <2>2, <2>4, <2>5, <3>1, Joins, Zenon
  <2>7. t \o << a >> \in Seq(Instruction) /\ Ordered(t \o << a >>) /\ Range(t \o << a >>) = L
    <3>1. \A b \in Range(t) : MayPrecede(b[1], a[1])
      BY <1>3, <2>6
    <3>2. QED
      BY <1>2, <2>1, <2>6, <3>1, Then, Zenon
  <2>8. \A b \in L : b = x \/ b = y \/ b = z \/ b = a
    BY <2>1
  <2>9. y \in L /\ z \in L
    BY <2>1
  <2>10. /\ \A b \in L : b[1] \in {"createRole", "grant", "filterPolicies", "readRoles"}
         /\ \A b \in L : b[1] \in {"grant", "filterPolicies"} => b[2] = r /\ b[3] = P
    BY <1>1, <2>8
  <2>11. GrantsFollowed(L)
    BY <1>1, <2>9, <2>10 DEF GrantsFollowed
  <2>12. DataOK /\ MakesGood({}) => MakesGood(L)'
    BY <1>1, <1>4, <2>9, <2>10, <2>11, CallStep DEF CallOps
  <2>13. QED
    BY <2>3, <2>7, <2>12, CallOK, Zenon
<1>7. QED
  BY <1>5, <1>6

LEMMA DeleteIAMRoleOK ==
  ASSUME RbacInv, NEW q \in Requests, NEW actor \in Users, NEW r \in Roles,
         DeleteIAMRole(q, actor, r)
  PROVE  RbacInv'
<1>1. PICK x, L : x = <<"usersOfRole", r, actor>> /\ L = {x}
  OBVIOUS
<1>2. x \in Instruction /\ x[1] = "usersOfRole"
  BY <1>1, Instructions
<1>3. Call(q, "DeleteIAMRole", << x >>)
  BY <1>1, Zenon DEF DeleteIAMRole
<1>4. << x >> \in Seq(Instruction) /\ Ordered(<< x >>) /\ Range(<< x >>) = L
  BY <1>1, <1>2, One, Zenon
<1>5. \A a \in L : a[1] = "usersOfRole"
  BY <1>1, <1>2
<1>6. GrantsFollowed(L)
  BY <1>5 DEF GrantsFollowed
<1>7. DataOK /\ MakesGood({}) => MakesGood(L)'
  BY <1>3, <1>5, <1>6, CallStep DEF CallOps, Call
<1>8. QED
  BY <1>3, <1>4, <1>7, CallOK, Zenon

LEMMA CreateIAMUserOK ==
  ASSUME RbacInv, NEW q \in Requests, NEW u \in Users, NEW R \in SUBSET Roles,
         CreateIAMUser(q, u, R)
  PROVE  RbacInv'
<1>1. PICK x, y, f : /\ x = <<"createUser", u>> /\ y = <<"readRoles", u>>
                     /\ f = [r \in R |-> <<"checkRole", u, r>>]
  OBVIOUS
<1>2. x \in Instruction /\ y \in Instruction /\ IsFiniteSet(R)
  BY <1>1, Finite, Instructions
<1>3. PICK A, L : A = {f[r] : r \in R} /\ L = {x} \cup A \cup {y}
  OBVIOUS
<1>4. PICK s : s = ForEach(f)
  OBVIOUS
<1>5. PICK t : t = << x >> \o s
  BY Zenon
<1>6. Call(q, "CreateIAMUser", t \o << y >>)
  BY <1>1, <1>4, <1>5, Zenon DEF CreateIAMUser, Ensure
<1>7. f \in [R -> Instruction] /\ \A r \in R : f[r][1] = "checkRole" /\ f[r][2] = u
  BY <1>1, Instructions
<1>8. \A a \in A : a[1] = "checkRole" /\ a[2] = u
  BY <1>3, <1>7
<1>9. s \in Seq(Instruction) /\ Ordered(s) /\ Range(s) = A
  <2>1. \A a, b \in A : MayPrecede(a[1], b[1])
    BY <1>8 DEF MayPrecede, IamOps, PolicyOps, Closing, Leading
  <2>2. QED
    BY <1>2, <1>3, <1>4, <1>7, <2>1, Loop, Zenon
<1>10. << x >> \in Seq(Instruction) /\ Ordered(<< x >>) /\ Range(<< x >>) = {x}
  BY <1>2, One, Zenon
<1>11. t \in Seq(Instruction) /\ Ordered(t) /\ Range(t) = {x} \cup A
  <2>1. \A a \in A : MayPrecede(x[1], a[1])
    BY <1>1, <1>8 DEF MayPrecede, IamOps, PolicyOps, Closing, Leading
  <2>2. \A b \in Range(<< x >>), a \in Range(s) : MayPrecede(b[1], a[1])
    BY <1>9, <1>10, <2>1
  <2>3. QED
    BY <1>5, <1>9, <1>10, <2>2, Joins, Zenon
<1>12. t \o << y >> \in Seq(Instruction) /\ Ordered(t \o << y >>) /\ Range(t \o << y >>) = L
  <2>1. \A a \in Range(t) : MayPrecede(a[1], y[1])
    BY <1>1, <1>8, <1>11 DEF MayPrecede, IamOps, PolicyOps, Closing, Leading
  <2>2. QED
    BY <1>2, <1>3, <1>11, <2>1, Then, Zenon
<1>13. DataOK /\ MakesGood({}) => MakesGood(L)'
  <2>1. /\ \A a \in L : a[1] \in {"createUser", "checkRole", "readRoles"}
        /\ \A a \in L : a[2] = u
    BY <1>1, <1>3, <1>8
  <2>2. <<"readRoles", u>> \in L
    BY <1>1, <1>3
  <2>3. GrantsFollowed(L)
    BY <2>1 DEF GrantsFollowed
  <2>4. QED
    BY <1>6, <2>1, <2>2, <2>3, CallStep DEF CallOps, Call
<1>14. QED
  BY <1>6, <1>12, <1>13, CallOK, Zenon

LEMMA DeleteIAMUserOK ==
  ASSUME RbacInv, NEW q \in Requests, NEW actor \in Users, NEW u \in Users,
         DeleteIAMUser(q, actor, u)
  PROVE  RbacInv'
<1>1. PICK x, y, z, L : /\ x = <<"clearRoles", u>> /\ y = <<"dropUser", u>>
                        /\ z = <<"filterGroupings", u>> /\ L = {x, y, z}
  OBVIOUS
<1>2. x \in Instruction /\ y \in Instruction /\ z \in Instruction
  BY <1>1, Instructions
<1>3. MayPrecede(x[1], y[1]) /\ MayPrecede(x[1], z[1]) /\ MayPrecede(y[1], z[1])
  BY <1>1 DEF MayPrecede, IamOps, PolicyOps, Closing, Leading
<1>4. Call(q, "DeleteIAMUser", << x, y, z >>)
  BY <1>1, Zenon DEF DeleteIAMUser
<1>5. << x, y, z >> \in Seq(Instruction) /\ Ordered(<< x, y, z >>) /\ Range(<< x, y, z >>) = L
  <2>1. << x, y, z >> \in Seq(Instruction)
    BY <1>2
  <2>2. /\ DOMAIN << x, y, z >> = {1, 2, 3}
        /\ << x, y, z >>[1] = x /\ << x, y, z >>[2] = y /\ << x, y, z >>[3] = z
    OBVIOUS
  <2>3. Range(<< x, y, z >>) = L
    BY <1>1, <2>2 DEF Range
  <2>4. Ordered(<< x, y, z >>)
    BY <1>3, <2>2 DEF Ordered
  <2>5. QED
    BY <2>1, <2>3, <2>4
<1>6. DataOK /\ MakesGood({}) => MakesGood(L)'
  <2>1. /\ \A a \in L : a[1] \in {"clearRoles", "dropUser", "filterGroupings"}
        /\ \A a \in L : a[2] = u
    BY <1>1
  <2>2. <<"dropUser", u>> \in L
    BY <1>1
  <2>3. GrantsFollowed(L)
    BY <2>1 DEF GrantsFollowed
  <2>4. QED
    BY <1>4, <2>1, <2>2, <2>3, CallStep DEF CallOps, Call
<1>7. QED
  BY <1>4, <1>5, <1>6, CallOK, Zenon

LEMMA AssignIAMUserRoleOK ==
  ASSUME RbacInv, NEW q \in Requests, NEW u \in Users, NEW r \in Roles,
         AssignIAMUserRole(q, u, r)
  PROVE  RbacInv'
<1>1. PICK x, y, L : x = <<"checkRole", u, r>> /\ y = <<"readRoles", u>> /\ L = {x, y}
  OBVIOUS
<1>2. x \in Instruction /\ y \in Instruction
  BY <1>1, Instructions
<1>3. MayPrecede(x[1], y[1])
  BY <1>1 DEF MayPrecede, IamOps, PolicyOps, Closing, Leading
<1>4. Call(q, "AssignIAMUserRole", << x >> \o << y >>)
  BY <1>1, Zenon DEF AssignIAMUserRole, Assign, Ensure
<1>5. /\ << x >> \o << y >> \in Seq(Instruction) /\ Ordered(<< x >> \o << y >>)
      /\ Range(<< x >> \o << y >>) = L
  BY <1>1, <1>2, <1>3, Pair, Zenon
<1>6. DataOK /\ MakesGood({}) => MakesGood(L)'
  <2>1. /\ \A a \in L : a[1] \in {"checkRole", "readRoles"}
        /\ \A a \in L : a[2] = u
    BY <1>1
  <2>2. <<"readRoles", u>> \in L
    BY <1>1
  <2>3. GrantsFollowed(L)
    BY <2>1 DEF GrantsFollowed
  <2>4. UNCHANGED <<iam, casbin, clean>>
    BY <1>4, Zenon DEF Call
  <2>5. QED
    BY <2>1, <2>2, <2>3, <2>4, CallStep DEF CallOps
<1>7. QED
  BY <1>4, <1>5, <1>6, CallOK, Zenon

LEMMA RemoveIAMUserRoleOK ==
  ASSUME RbacInv, NEW q \in Requests, NEW u \in Users, NEW r \in Roles,
         RemoveIAMUserRole(q, u, r)
  PROVE  RbacInv'
<1>1. PICK x, y, L : x = <<"unbind", u, r>> /\ y = <<"readRoles", u>> /\ L = {x, y}
  OBVIOUS
<1>2. x \in Instruction /\ y \in Instruction
  BY <1>1, Instructions
<1>3. MayPrecede(x[1], y[1])
  BY <1>1 DEF MayPrecede, IamOps, PolicyOps, Closing, Leading
<1>4. Call(q, "RemoveIAMUserRole", << x >> \o << y >>)
  BY <1>1, Zenon DEF RemoveIAMUserRole, Ensure
<1>5. /\ << x >> \o << y >> \in Seq(Instruction) /\ Ordered(<< x >> \o << y >>)
      /\ Range(<< x >> \o << y >>) = L
  BY <1>1, <1>2, <1>3, Pair, Zenon
<1>6. DataOK /\ MakesGood({}) => MakesGood(L)'
  <2>1. /\ \A a \in L : a[1] \in {"unbind", "readRoles"}
        /\ \A a \in L : a[2] = u
    BY <1>1
  <2>2. <<"readRoles", u>> \in L
    BY <1>1
  <2>3. GrantsFollowed(L)
    BY <2>1 DEF GrantsFollowed
  <2>4. UNCHANGED <<iam, casbin, clean>>
    BY <1>4, Zenon DEF Call
  <2>5. QED
    BY <2>1, <2>2, <2>3, <2>4, CallStep DEF CallOps
<1>7. QED
  BY <1>4, <1>5, <1>6, CallOK, Zenon

LEMMA SyncCasbinPoliciesOK ==
  ASSUME RbacInv, NEW q \in Requests, SyncCasbinPolicies(q)
  PROVE  RbacInv'
<1>1. PICK x, L : x = <<"listRoles">> /\ L = {x}
  OBVIOUS
<1>2. x \in Instruction /\ x[1] = "listRoles"
  BY <1>1, Instructions
<1>3. Call(q, "SyncCasbinPolicies", << x >>)
  BY <1>1, Zenon DEF SyncCasbinPolicies, Sync
<1>4. << x >> \in Seq(Instruction) /\ Ordered(<< x >>) /\ Range(<< x >>) = L
  BY <1>1, <1>2, One, Zenon
<1>5. \A a \in L : a[1] = "listRoles"
  BY <1>1, <1>2
<1>6. GrantsFollowed(L)
  BY <1>5 DEF GrantsFollowed
<1>7. DataOK /\ MakesGood({}) => MakesGood(L)'
  BY <1>3, <1>5, <1>6, CallStep DEF CallOps, Call
<1>8. QED
  BY <1>3, <1>4, <1>7, CallOK, Zenon

LEMMA ArrivalOK ==
  ASSUME RbacInv, NEW q \in Requests, Arrival(q)
  PROVE  RbacInv'
<1>1. CASE \E r \in Roles, permissions \in SUBSET Permissions, actor \in Users :
             /\ Known(actor)
             /\ \/ UpdateRolePermissions(q, actor, r, permissions)
                \/ CreateIAMRole(q, actor, r, permissions)
  BY <1>1, UpdateRolePermissionsOK, CreateIAMRoleOK
<1>2. CASE \E S \in {{}} \cup {{r} : r \in Roles}, actor \in Users :
             Known(actor) /\ ResetRolePermissions(q, actor, S)
  <2>1. PICK S \in {{}} \cup {{r} : r \in Roles}, actor \in Users :
        ResetRolePermissions(q, actor, S)
    BY <1>2
  <2>2. S \in SUBSET Roles
    OBVIOUS
  <2>3. QED
    BY <2>1, <2>2, ResetRolePermissionsOK
<1>3. CASE \E r \in Roles, actor \in Users : Known(actor) /\ DeleteIAMRole(q, actor, r)
  BY <1>3, DeleteIAMRoleOK
<1>4. CASE \E u, actor \in Users : Known(actor) /\ DeleteIAMUser(q, actor, u)
  BY <1>4, DeleteIAMUserOK
<1>5. CASE \E u \in Users, roles \in SUBSET Roles : CreateIAMUser(q, u, roles)
  BY <1>5, CreateIAMUserOK
<1>6. CASE \E u \in Users, r \in Roles : AssignIAMUserRole(q, u, r) \/ RemoveIAMUserRole(q, u, r)
  BY <1>6, AssignIAMUserRoleOK, RemoveIAMUserRoleOK
<1>7. CASE SyncCasbinPolicies(q)
  BY <1>7, SyncCasbinPoliciesOK
<1>8. QED
  BY <1>1, <1>2, <1>3, <1>4, <1>5, <1>6, <1>7 DEF Arrival

LEMMA StepOK ==
  ASSUME RbacInv, NEW q \in Processes, Step(q)
  PROVE  RbacInv'
  BY GrantOK, CreateRoleOK, RereadRolesOK, UsersOfRoleOK, CountRolesOK, ReleaseRoleOK, DropRoleOK,
     CreateUserOK, ClearRolesOK, DropUserOK, CheckRoleOK, BindOK, UnbindOK, SeedRoleOK,
     SeedMappingsOK, SeedAdminOK, FilterPoliciesOK, RemovePoliciesOK, AddPoliciesOK, AddPolicyOK,
     ReadRolesOK, AlignOK, FilterGroupingsOK, RemoveGroupingOK, AddGroupingOK, ListRolesOK,
     GetPolicyOK, ListUsersOK, SynchronisedOK DEF Step

LEMMA StutterOK ==
  ASSUME RbacInv, UNCHANGED rbacVars
  PROVE  RbacInv'
<1>1. PICK I : I = Pending
  OBVIOUS
<1>2. /\ role' = role /\ granted' = granted /\ user' = user /\ bound' = bound
      /\ p' = p /\ g' = g /\ todo' = todo /\ clean' = clean
  BY DEF rbacVars
<1>3. RbacTypeOK' /\ NewRolesBare' /\ (\A q \in Processes : Ordered(todo'[q]))
  BY <1>2 DEF RbacInv, RbacTypeOK, NewRolesBare
<1>4. (Serving' <=> Serving) /\ Alone' = Alone /\ Pending' = I
  BY <1>1, <1>2 DEF Serving, Pending, Alone
<1>5. SeedsAdmin(I) => SeedsAdmin(I)'
  BY <1>2 DEF SeedsAdmin, Synchronises
<1>6. MakesGood(I) => MakesGood(I)'
  <2>1. \A u : LiveRoles(u)' = LiveRoles(u)
    BY <1>2 DEF LiveRoles
  <2>2. GrantsFollowed(I) => GrantsFollowed(I)'
    BY DEF GrantsFollowed
  <2>3. ReplacementsRight(I) => ReplacementsRight(I)'
    BY <1>2 DEF ReplacementsRight
  <2>4. ChangesFollowed(I) => ChangesFollowed(I)'
    BY <1>2, Zenon DEF ChangesFollowed
  <2>5. DeletionsSpare(I) => DeletionsSpare(I)'
    BY <1>2, <2>1 DEF DeletionsSpare
  <2>6. AlignmentsRight(I) => AlignmentsRight(I)'
    BY <2>1 DEF AlignmentsRight
  <2>7. \A r \in Roles : PoliciesDue(I, r) => PoliciesDue(I, r)'
    BY <1>2, PoliciesStay DEF SameForRole
  <2>8. \A u \in Users : GroupingsDue(I, u) => GroupingsDue(I, u)'
    BY <1>2, <2>1, GroupingsStay DEF SameForUser
  <2>9. ProjectionDue(I) => ProjectionDue(I)'
    BY <1>2, <2>7, <2>8 DEF ProjectionDue, PoliciesDue, GroupingsDue, Synchronises
  <2>10. QED
    BY <2>2, <2>3, <2>4, <2>5, <2>6, <2>9 DEF MakesGood
<1>7. QED
  BY <1>1, <1>2, <1>3, <1>4, <1>5, <1>6 DEF RbacInv

\* Whatever runs at the same time, the instructions of a list that is alone make good what is
\* still wrong, and those of a start seed what dev-admin needs.
THEOREM RbacInductive == Spec => []RbacInv
<1>1. Init => RbacInv
  BY InitOK
<1>2. RbacInv /\ [Next]_rbacVars => RbacInv'
  <2> SUFFICES ASSUME RbacInv, [Next]_rbacVars
               PROVE  RbacInv'
    OBVIOUS
  <2>1. CASE \E q \in Requests : Arrival(q)
    BY <2>1, ArrivalOK
  <2>2. CASE \E q \in Processes : Step(q)
    BY <2>2, StepOK
  <2>3. CASE \E q \in Processes : Fail(q)
    BY <2>3, AbortOK DEF Fail
  <2>4. CASE Crash
    BY <2>4, CrashOK
  <2>5. CASE UNCHANGED rbacVars
    BY <2>5, StutterOK
  <2>6. QED
    BY <2>1, <2>2, <2>3, <2>4, <2>5 DEF Next
<1>3. QED
  BY <1>1, <1>2, PTL DEF Spec

\* Every variable keeps its type, whatever runs at the same time.
THEOREM RbacTypeCorrect == Spec => []RbacTypeOK
<1>1. RbacInv => RbacTypeOK
  BY DEF RbacInv
<1>2. QED
  BY <1>1, RbacInductive, PTL

-----------------------------------------------------------------------------
(* What the projection is when nothing is left to do *)

LEMMA SettledIsExact ==
  ASSUME DataOK, NEW I, \A x \in I : x[1] = "synchronised", ProjectionDue(I),
         clean \/ Synchronises(I)
  PROVE  Exact
<1>1. ASSUME NEW r \in Roles
      PROVE  p[r] = IF role[r] = "live" THEN Policies(granted[r]) ELSE {}
  <2>1. PoliciesSettled(I, r)
    BY DEF ProjectionDue, PoliciesRebuilt
  <2>2. \A x \in I : \A e : ~Adds(x, r, e) /\ ~Removes(x, r, e)
    BY DEF Adds, Removes
  <2>3. <<"dropRole", r>> \notin I
    OBVIOUS
  <2>4. Goal(I, r) = IF role[r] = "live" THEN Policies(granted[r]) ELSE {}
    BY <2>3 DEF Goal
  <2>5. Goal(I, r) \subseteq Endpoints /\ p[r] \subseteq Endpoints
    BY <2>4, PoliciesType DEF DataOK
  <2>6. \A e \in Endpoints : e \in Goal(I, r) <=> e \in p[r]
    BY <2>1, <2>2 DEF PoliciesSettled
  <2>7. QED
    BY <2>4, <2>5, <2>6
<1>2. ASSUME NEW u \in Users, user[u] = "live"
      PROVE  g[u] = LiveRoles(u)
  <2>1. GroupingsSettled(I, u)
    BY <1>2 DEF ProjectionDue, GroupingsRebuilt
  <2>2. \A r : <<"removeGrouping", u, r>> \notin I /\ <<"addGrouping", u, r>> \notin I
    OBVIOUS
  <2>3. \A r \in Roles : r \in LiveRoles(u) <=> r \in g[u]
    BY <2>1, <2>2 DEF GroupingsSettled
  <2>4. LiveRoles(u) \subseteq Roles /\ g[u] \subseteq Roles
    BY DEF LiveRoles, DataOK
  <2>5. QED
    BY <2>3, <2>4
<1>3. QED
  BY <1>1, <1>2 DEF Exact

LEMMA SynchronisedExact ==
  ASSUME RbacInv, Alone, NEW q \in Processes, At(q, "synchronised")
  PROVE  Exact /\ Pending = {Head(todo[q])} /\ todo[q] # << >>
<1>1. PICK h, T : h = Head(todo[q]) /\ T = Range(Tail(todo[q]))
  OBVIOUS
<1>2. todo[q] # << >> /\ h[1] = "synchronised"
  BY <1>1 DEF At
<1>3. Leads(h, T) /\ DataOK /\ T = {}
  BY <1>1, <1>2, First DEF Leads, MayPrecede, Closing
<1>4. Pending = {h}
  <2>1. Pending = Range(todo[q])
    BY <1>2, OnlyOneList
  <2>2. todo[q] \in Seq(Instruction)
    BY RbacInvIsData
  <2>3. QED
    BY <1>1, <1>2, <1>3, <2>1, <2>2, Split
<1>5. ProjectionDue({h})
  BY <1>4 DEF RbacInv, MakesGood
<1>6. Synchronises({h})
  BY <1>2 DEF Synchronises
<1>7. Exact
  BY <1>2, <1>3, <1>5, <1>6, SettledIsExact
<1>8. QED
  BY <1>1, <1>2, <1>4, <1>7

\* The start of the server repairs the projection before it serves its first call, whatever
\* errors, crashes and overlapping calls left behind.
THEOREM StartRepairs == Spec => [](At(Startup, "synchronised") => Exact)
<1>1. RbacInv => (At(Startup, "synchronised") => Exact)
  BY SynchronisedExact DEF Alone, Serving, At, Processes
<1>2. QED
  BY <1>1, RbacInductive, PTL

\* Without overlapping calls a synchronisation that gets to its end repairs the projection.
THEOREM SynchronisationRepairs ==
  ASSUME OneAtATime
  PROVE  Spec => []SyncRepairs
<1>1. RbacInv => SyncRepairs
  BY SynchronisedExact DEF SyncRepairs, Alone
<1>2. QED
  BY <1>1, RbacInductive, PTL

\* Without overlapping calls, and as long as none was cut short, Casbin authorises exactly what
\* IAM grants whenever nothing is under way.
THEOREM ProjectionIsExact ==
  ASSUME OneAtATime
  PROVE  Spec => []ProjectionExact
<1>1. ASSUME RbacInv, clean, \A q \in Processes : todo[q] = << >>
      PROVE  Exact
  <2>1. Pending = {}
    BY <1>1, None DEF Pending
  <2>2. ProjectionDue({})
    BY <1>1, <2>1 DEF RbacInv, Alone, MakesGood
  <2>3. DataOK
    BY <1>1, RbacInvIsData
  <2>4. QED
    BY <1>1, <2>2, <2>3, SettledIsExact
<1>2. RbacInv => ProjectionExact
  BY <1>1 DEF ProjectionExact
<1>3. QED
  BY <1>2, RbacInductive, PTL

-----------------------------------------------------------------------------
(* What steps of the start and of a deletion may not do *)

\* The instruction at the head of a list determines the action.
LEMMA Dispatch ==
  ASSUME NEW q, Step(q), NEW name, At(q, name)
  PROVE  /\ name = "grant" => Grant(q)
         /\ name = "dropRole" => DropRole(q)
         /\ name = "checkRole" => CheckRole(q)
         /\ name = "bind" => Bind(q)
         /\ name = "unbind" => Unbind(q)
         /\ name = "seedRole" => SeedRole(q)
         /\ name = "seedMappings" => SeedMappings(q)
         /\ name = "seedAdmin" => SeedAdmin(q)
         /\ name = "removePolicies" => RemovePolicies(q)
         /\ name = "addPolicies" => AddPolicies(q)
         /\ name = "addPolicy" => AddPolicy(q)
         /\ name = "readRoles" => ReadRoles(q)
         /\ name = "align" => Align(q)
         /\ name = "removeGrouping" => RemoveGrouping(q)
         /\ name = "addGrouping" => AddGrouping(q)
         /\ name = "listRoles" => ListRoles(q)
         /\ name = "getPolicy" => GetPolicy(q)
         /\ name = "listUsers" => ListUsers(q)
         /\ name = "synchronised" => Synchronised(q)
<1>1. /\ Grant(q) => At(q, "grant")
      /\ CreateRole(q) => At(q, "createRole")
      /\ RereadRoles(q) => At(q, "rereadRoles")
      /\ UsersOfRole(q) => At(q, "usersOfRole")
      /\ CountRoles(q) => At(q, "countRoles")
      /\ ReleaseRole(q) => At(q, "releaseRole")
      /\ DropRole(q) => At(q, "dropRole")
      /\ CreateUser(q) => At(q, "createUser")
      /\ ClearRoles(q) => At(q, "clearRoles")
      /\ DropUser(q) => At(q, "dropUser")
      /\ CheckRole(q) => At(q, "checkRole")
      /\ Bind(q) => At(q, "bind")
      /\ Unbind(q) => At(q, "unbind")
      /\ SeedRole(q) => At(q, "seedRole")
      /\ SeedMappings(q) => At(q, "seedMappings")
      /\ SeedAdmin(q) => At(q, "seedAdmin")
      /\ FilterPolicies(q) => At(q, "filterPolicies")
      /\ RemovePolicies(q) => At(q, "removePolicies")
      /\ AddPolicies(q) => At(q, "addPolicies")
      /\ AddPolicy(q) => At(q, "addPolicy")
      /\ ReadRoles(q) => At(q, "readRoles")
      /\ Align(q) => At(q, "align")
      /\ FilterGroupings(q) => At(q, "filterGroupings")
      /\ RemoveGrouping(q) => At(q, "removeGrouping")
      /\ AddGrouping(q) => At(q, "addGrouping")
      /\ ListRoles(q) => At(q, "listRoles")
      /\ GetPolicy(q) => At(q, "getPolicy")
      /\ ListUsers(q) => At(q, "listUsers")
      /\ Synchronised(q) => At(q, "synchronised")
  BY DEF Grant, CreateRole, RereadRoles, UsersOfRole, CountRoles, ReleaseRole, DropRole,
         CreateUser, ClearRoles, DropUser, CheckRole, Bind, Unbind, SeedRole, SeedMappings,
         SeedAdmin, FilterPolicies, RemovePolicies, AddPolicies, AddPolicy, ReadRoles, Align,
         FilterGroupings, RemoveGrouping, AddGrouping, ListRoles, GetPolicy, ListUsers,
         Synchronised
<1>2. \A other : At(q, other) => other = name
  BY DEF At
<1>3. QED
  BY <1>1, <1>2 DEF Step

LEMMA StepAt ==
  ASSUME NEW q, Step(q)
  PROVE  \E name : At(q, name)
  BY DEF Step, Grant, CreateRole, RereadRoles, UsersOfRole, CountRoles, ReleaseRole, DropRole,
         CreateUser, ClearRoles, DropUser, CheckRole, Bind, Unbind, SeedRole, SeedMappings,
         SeedAdmin, FilterPolicies, RemovePolicies, AddPolicies, AddPolicy, ReadRoles, Align,
         FilterGroupings, RemoveGrouping, AddGrouping, ListRoles, GetPolicy, ListUsers,
         Synchronised

\* A list that has come to its end was at its last instruction.
LEMMA LastOne ==
  ASSUME RbacInv, NEW q \in Processes, todo[q] # << >>, todo'[q] = << >>,
         NEW A, NEW before \in Seq(A), Continue(q, before)
  PROVE  before = << >> /\ Range(Tail(todo[q])) = {}
<1>1. todo \in [Processes -> Seq(Instruction)] /\ Tail(todo[q]) \in Seq(Instruction)
  BY RbacInvIsData
<1>2. before \o Tail(todo[q]) = << >>
  BY <1>1 DEF Continue
<1>3. PICK t : t = Tail(todo[q]) /\ t \in Seq(Instruction) /\ before \o t = << >>
  BY <1>1, <1>2
<1>4. Len(before \o t) = Len(before) + Len(t) /\ Len(before) \in Nat /\ Len(t) \in Nat
  <2>1. before \in Seq(A \cup Instruction) /\ t \in Seq(A \cup Instruction)
    BY <1>3
  <2>2. QED
    BY <2>1
<1>5. Len(before) = 0 /\ Len(t) = 0
  <2>1. Len(before \o t) = 0
    BY <1>3
  <2>2. ASSUME NEW m \in Nat, NEW n \in Nat, m + n = 0
        PROVE  m = 0 /\ n = 0
    BY <2>2
  <2>3. QED
    BY <1>4, <2>1, <2>2, Zenon
<1>6. before = << >> /\ t = << >>
  BY <1>3, <1>5
<1>7. QED
  BY <1>3, <1>6, None

\* A start ends with the end of its synchronisation.
LEMMA StartEnds ==
  ASSUME RbacInv, [Next]_rbacVars, ~Serving, Serving'
  PROVE  Synchronised(Startup)
<1>1. /\ todo[Startup] # << >> /\ todo'[Startup] = << >> /\ \A q \in Requests : todo[q] = << >>
      /\ todo \in [Processes -> Seq(Instruction)] /\ Startup \in Processes
  BY RbacInvIsData DEF Serving, RbacInv, Processes
<1>2. ~Crash /\ ~Abort(Startup)
  BY <1>1, BootList DEF Crash, Abort
<1>3. Step(Startup)
  <2>1. \A q \in Requests : ~Arrival(q)
    BY DEF Arrival, UpdateRolePermissions, CreateIAMRole, ResetRolePermissions, DeleteIAMRole,
           DeleteIAMUser, CreateIAMUser, AssignIAMUserRole, RemoveIAMUserRole, SyncCasbinPolicies,
           Call
  <2>2. \A q \in Requests : ~Fail(q)
    BY <1>1 DEF Fail
  <2>3. todo' # todo
    BY <1>1
  <2>4. \A q \in Requests : ~Step(q)
    BY <1>1, StepAt DEF At
  <2>5. QED
    BY <1>2, <2>1, <2>2, <2>3, <2>4 DEF Next, Processes, rbacVars, Fail
<1>4. PICK h, T : h = Head(todo[Startup]) /\ T = Range(Tail(todo[Startup]))
  OBVIOUS
<1>5. Leads(h, T) /\ DataOK /\ Pending = {h} \cup T
  <2>1. Pending = Range(todo[Startup])
    BY <1>1, OnlyOneList DEF Alone
  <2>2. QED
    BY <1>1, <1>4, <2>1, First, Split
<1>6. Synchronises({h} \cup T) /\ h[1] \in StartOps
  BY <1>1, <1>5 DEF RbacInv, Serving, SeedsAdmin
<1>7. ASSUME NEW A, NEW before \in Seq(A), Continue(Startup, before)
      PROVE  before = << >> /\ h[1] \in {"listRoles", "listUsers", "synchronised"}
  <2>1. before = << >> /\ T = {}
    BY <1>1, <1>4, <1>7, LastOne
  <2>2. QED
    BY <1>6, <2>1 DEF Synchronises
<1>8. At(Startup, h[1])
  BY <1>1, <1>4 DEF At
<1>9. CASE h[1] \in {"grant", "bind", "seedRole", "seedAdmin", "removePolicies", "addPolicy",
                     "removeGrouping", "addGrouping"}
  <2>1. Proceed(Startup)
    BY <1>2, <1>3, <1>8, <1>9, Dispatch DEF Grant, Bind, SeedRole, SeedAdmin, RemovePolicies,
       AddPolicy, RemoveGrouping, AddGrouping
  <2>2. << >> \in Seq(Instruction)
    BY None
  <2>3. QED
    BY <1>7, <1>9, <2>1, <2>2 DEF Proceed
<1>10. CASE h[1] = "checkRole"
  <2>1. PICK u, r, before : /\ u = h[2] /\ r = h[3]
                            /\ before = IF r \in bound[u] THEN << >> ELSE << <<"bind", u, r>> >>
    OBVIOUS
  <2>2. Continue(Startup, before)
    BY <1>2, <1>3, <1>4, <1>8, <1>10, <2>1, Dispatch DEF CheckRole, Arg
  <2>3. u \in Users /\ r \in Roles
    BY <1>5, <1>10, <2>1, Parts DEF Leads
  <2>4. before \in Seq(Instruction)
    BY <2>1, <2>3, Instructions, None, One
  <2>5. QED
    BY <1>7, <1>10, <2>2, <2>4
<1>11. CASE h[1] = "readRoles"
  <2>1. PICK x : x = <<"align", h[2], LiveRoles(h[2])>>
    OBVIOUS
  <2>2. Continue(Startup, << x >>)
    BY <1>2, <1>3, <1>4, <1>8, <1>11, <2>1, Dispatch DEF ReadRoles, Arg
  <2>3. << x >> \in Seq({x})
    OBVIOUS
  <2>4. QED
    BY <1>7, <1>11, <2>2, <2>3
<1>12. CASE h[1] = "getPolicy"
  <2>1. PICK x : x = <<"removePolicies", p>>
    OBVIOUS
  <2>2. Continue(Startup, << x >>)
    BY <1>3, <1>8, <1>12, <2>1, Dispatch DEF GetPolicy
  <2>3. << x >> \in Seq({x})
    OBVIOUS
  <2>4. QED
    BY <1>7, <1>12, <2>2, <2>3
<1>13. CASE h[1] = "seedMappings"
  <2>1. PICK S : S = IF \A r \in Roles : role[r] = "live" => granted[r] = {}
                THEN Preset ELSE {Super}
    OBVIOUS
  <2>2. PICK f : f = [r \in S |-> <<"grant", r, Defaults[r]>>]
    OBVIOUS
  <2>3. Continue(Startup, ForEach(f))
    BY <1>3, <1>8, <1>13, <2>1, <2>2, Dispatch DEF SeedMappings
  <2>4. IsFiniteSet(S)
    BY <2>1, SeedAssumption, Finite
  <2>5. ForEach(f) \in Seq(Range(f))
    BY <2>2, <2>4, LoopLists
  <2>6. QED
    BY <1>7, <1>13, <2>3, <2>5
<1>14. CASE h[1] = "addPolicies"
  <2>1. PICK S, f : S = Policies(h[3]) /\ f = [e \in S |-> <<"addPolicy", h[2], e>>]
    OBVIOUS
  <2>2. Continue(Startup, ForEach(f))
    BY <1>3, <1>4, <1>8, <1>14, <2>1, Dispatch DEF AddPolicies, Arg
  <2>3. IsFiniteSet(S)
    BY <1>5, <1>14, <2>1, Parts, PoliciesType, Finite DEF Leads
  <2>4. ForEach(f) \in Seq(Range(f))
    BY <2>1, <2>3, LoopLists
  <2>5. QED
    BY <1>7, <1>14, <2>2, <2>4
<1>15. CASE h[1] = "align"
  <2>1. PICK u, want, f1, f2 : /\ u = h[2] /\ want = h[3]
                               /\ f1 = [r \in g[u] \ want |-> <<"removeGrouping", u, r>>]
                               /\ f2 = [r \in want |-> <<"addGrouping", u, r>>]
    OBVIOUS
  <2>2. PICK s1, s2 : s1 = ForEach(f1) /\ s2 = ForEach(f2)
    OBVIOUS
  <2>3. Continue(Startup, s1 \o s2)
    BY <1>3, <1>4, <1>8, <1>15, <2>1, <2>2, Dispatch, Zenon DEF Align, Arg
  <2>4. u \in Users /\ want \in SUBSET Roles
    BY <1>5, <1>15, <2>1, Parts DEF Leads
  <2>5. IsFiniteSet(g[u] \ want) /\ IsFiniteSet(want)
    <3>1. g[u] \ want \in SUBSET Roles
      BY <1>5, <2>4 DEF DataOK
    <3>2. QED
      BY <2>4, <3>1, Finite
  <2>6. s1 \in Seq(Range(f1)) /\ s2 \in Seq(Range(f2))
    BY <2>1, <2>2, <2>5, LoopLists
  <2>7. s1 \o s2 \in Seq(Range(f1) \cup Range(f2))
    <3>1. s1 \in Seq(Range(f1) \cup Range(f2)) /\ s2 \in Seq(Range(f1) \cup Range(f2))
      BY <2>6
    <3>2. QED
      BY <3>1
  <2>8. QED
    BY <1>7, <1>15, <2>3, <2>7
<1>16. CASE h[1] = "listRoles"
  <2>1. PICK live, x, y : /\ live = {r \in Roles : role[r] = "live"}
                          /\ x = <<"getPolicy">> /\ y = <<"listUsers">>
    OBVIOUS
  <2>2. PICK f : f = [r \in live |-> <<"addPolicies", r, granted[r]>>]
    OBVIOUS
  <2>3. PICK s : s = ForEach(f)
    OBVIOUS
  <2>4. Continue(Startup, (<< x >> \o s) \o << y >>)
    BY <1>3, <1>8, <1>16, <2>1, <2>2, <2>3, Dispatch, Zenon DEF ListRoles
  <2>5. IsFiniteSet(live)
    BY <2>1, Finite
  <2>6. s \in Seq(Range(f))
    BY <2>2, <2>3, <2>5, LoopLists
  <2>7. PICK A : A = Range(f) \cup {x, y}
    OBVIOUS
  <2>8. << x >> \in Seq(A) /\ s \in Seq(A) /\ << y >> \in Seq(A)
    BY <2>6, <2>7
  <2>9. (<< x >> \o s) \o << y >> \in Seq(A) /\ (<< x >> \o s) \o << y >> # << >>
    BY <2>8
  <2>10. QED
    BY <1>7, <2>4, <2>9, Zenon
<1>17. CASE h[1] = "listUsers"
  <2>1. PICK live, x : live = {u \in Users : user[u] = "live"} /\ x = <<"synchronised">>
    OBVIOUS
  <2>2. PICK f : f = [u \in live |-> <<"readRoles", u>>]
    OBVIOUS
  <2>3. PICK s : s = ForEach(f)
    OBVIOUS
  <2>4. Continue(Startup, s \o << x >>)
    BY <1>3, <1>8, <1>17, <2>1, <2>2, <2>3, Dispatch, Zenon DEF ListUsers, EnsureAll
  <2>5. IsFiniteSet(live)
    BY <2>1, Finite
  <2>6. s \in Seq(Range(f))
    BY <2>2, <2>3, <2>5, LoopLists
  <2>7. PICK A : A = Range(f) \cup {x}
    OBVIOUS
  <2>8. s \in Seq(A) /\ << x >> \in Seq(A)
    BY <2>6, <2>7
  <2>9. s \o << x >> \in Seq(A) /\ s \o << x >> # << >>
    BY <2>8
  <2>10. QED
    BY <1>7, <2>4, <2>9, Zenon
<1>18. CASE h[1] = "synchronised"
  BY <1>3, <1>8, <1>18, Dispatch
<1>19. QED
  BY <1>6, <1>9, <1>10, <1>11, <1>12, <1>13, <1>14, <1>15, <1>16, <1>17, <1>18 DEF StartOps

\* However users, roles and permissions were changed, and however the projection was left
\* behind, a start ends with dev-admin authorised for every endpoint of the catalogue.
THEOREM AdminIsRestored == Spec => StartRestoresAdmin
<1>1. ASSUME RbacInv, [Next]_rbacVars, ~Serving, Serving'
      PROVE  \A e \in Policies(Permissions) : Authorized(Admin, e)'
  <2>1. Synchronised(Startup) /\ At(Startup, "synchronised") /\ UNCHANGED casbin
    BY <1>1, StartEnds DEF Synchronised
  <2>2. PICK h : h = Head(todo[Startup])
    OBVIOUS
  <2>3. Exact /\ Pending = {h} /\ h[1] = "synchronised"
    BY <1>1, <2>1, <2>2, SynchronisedExact DEF Alone, At, Processes
  <2>4. /\ role[Super] = "live" /\ user[Admin] = "live" /\ granted[Super] = Permissions
        /\ Super \in bound[Admin]
    <3>1. SeedsAdmin({h})
      BY <1>1, <2>3 DEF RbacInv
    <3>2. /\ <<"seedRole", Super>> \notin {h} /\ <<"seedAdmin">> \notin {h}
          /\ <<"seedMappings">> \notin {h} /\ <<"grant", Super, Permissions>> \notin {h}
          /\ <<"checkRole", Admin, Super>> \notin {h} /\ <<"bind", Admin, Super>> \notin {h}
      BY <2>3
    <3>3. QED
      BY <3>1, <3>2 DEF SeedsAdmin
  <2>5. Admin \in Users /\ Super \in Roles
    BY SeedAssumption
  <2>6. p[Super] = Policies(Permissions) /\ Super \in g[Admin]
    BY <2>3, <2>4, <2>5 DEF Exact, LiveRoles
  <2>7. QED
    BY <2>1, <2>6 DEF Authorized, casbin
<1>2. RbacInv /\ [Next]_rbacVars =>
        [~Serving /\ Serving' => \A e \in Policies(Permissions) : Authorized(Admin, e)']_rbacVars
  BY <1>1
<1>3. QED
  BY <1>2, RbacInductive, PTL DEF Spec, StartRestoresAdmin

\* What a step of a deletion takes from a user is the role that is deleted.
LEMMA DeletionTakes ==
  ASSUME RbacInv, Alone, [Next]_rbacVars, NEW q \in Requests, DeletingRole(q)
  PROVE  \E r \in Roles :
           /\ \A u \in Users : user[u] = "live" /\ r \in bound[u] => LiveRoles(u) \ {r} # {}
           /\ \A u \in Users : LiveRoles(u) \ {r} \subseteq LiveRoles(u)'
<1>1. todo \in [Processes -> Seq(Instruction)] /\ q \in Processes /\ todo[q] # << >>
  <2>1. todo \in [Processes -> Seq(Instruction)] /\ q \in Processes
    BY RbacInvIsData DEF Processes
  <2>2. PICK list : list = todo[q] /\ list \in Seq(Instruction)
    BY <2>1
  <2>3. \E i \in DOMAIN list : TRUE
    BY <2>2 DEF DeletingRole
  <2>4. QED
    BY <2>1, <2>2, <2>3
<1>2. PICK h, T : h = Head(todo[q]) /\ T = Range(Tail(todo[q]))
  OBVIOUS
<1>3. Leads(h, T) /\ DataOK /\ Pending = {h} \cup T
  BY <1>1, <1>2, OnlyOneList, First, Split
<1>4. PICK d \in {h} \cup T : d[1] = "dropRole"
  <2>1. \E d \in Range(todo[q]) : d[1] = "dropRole"
    BY DEF DeletingRole, Range
  <2>2. QED
    BY <1>1, <1>3, <2>1, OnlyOneList
<1>5. d[2] \in Roles
  BY <1>3, <1>4, Parts DEF Leads
<1>6. /\ \A u \in Users : user[u] = "live" /\ d[2] \in bound[u] => LiveRoles(u) \ {d[2]} # {}
      /\ h[1] = "unbind" => h[3] = d[2]
  <2>1. DeletionsSpare({h} \cup T)
    BY <1>3 DEF RbacInv, MakesGood
  <2>2. QED
    BY <1>4, <2>1 DEF DeletionsSpare
<1>7. h = d \/ h[1] = "unbind"
  BY <1>3, <1>4 DEF Leads, MayPrecede
<1>8. ASSUME UNCHANGED <<role, bound>>
      PROVE  \A u \in Users : LiveRoles(u) \ {d[2]} \subseteq LiveRoles(u)'
  BY <1>8 DEF LiveRoles
<1>9. ASSUME Step(q)
      PROVE  \A u \in Users : LiveRoles(u) \ {d[2]} \subseteq LiveRoles(u)'
  <2>1. CASE h[1] = "unbind"
    <3>1. Unbind(q)
      BY <1>1, <1>2, <1>9, <2>1, Dispatch DEF At
    <3>2. role' = role /\ (bound' = bound \/ bound' = [bound EXCEPT ![h[2]] = @ \ {h[3]}])
      BY <1>2, <3>1 DEF Unbind, Arg, Abort, iam
    <3>3. QED
      BY <1>3, <1>6, <2>1, <3>2 DEF LiveRoles, DataOK
  <2>2. CASE h = d
    <3>1. DropRole(q)
      BY <1>1, <1>2, <1>4, <1>9, <2>2, Dispatch DEF At
    <3>2. bound' = bound /\ (role' = role \/ role' = [role EXCEPT ![d[2]] = "deleted"])
      BY <1>2, <2>2, <3>1 DEF DropRole, Arg, Abort, iam
    <3>3. QED
      BY <1>3, <1>5, <3>2 DEF LiveRoles, DataOK
  <2>3. QED
    BY <1>7, <2>1, <2>2
<1>10. Step(q) \/ UNCHANGED <<role, bound>>
  <2>1. \A x \in Requests : ~Arrival(x) \/ UNCHANGED <<role, bound>>
    BY DEF Arrival, UpdateRolePermissions, CreateIAMRole, ResetRolePermissions, DeleteIAMRole,
           DeleteIAMUser, CreateIAMUser, AssignIAMUserRole, RemoveIAMUserRole, SyncCasbinPolicies,
           Call, iam
  <2>2. \A x \in Processes : Step(x) => x = q
    BY <1>1, OnlyOneList, StepAt DEF At
  <2>3. (\E x \in Processes : Fail(x)) \/ Crash \/ UNCHANGED rbacVars => UNCHANGED <<role, bound>>
    BY DEF Fail, Abort, Crash, rbacVars, iam
  <2>4. QED
    BY <2>1, <2>2, <2>3 DEF Next
<1>11. QED
  BY <1>5, <1>6, <1>8, <1>9, <1>10

\* Without overlapping calls the deletion of a role leaves every user with another role: the
\* users it counted the roles of are still those that have the role.
THEOREM DeletionSparesLastRole ==
  ASSUME OneAtATime
  PROVE  Spec => RoleDeletionSparesLastRole
<1>1. ASSUME RbacInv, [Next]_rbacVars, NEW q \in Requests, DeletingRole(q),
             NEW u \in Users, user[u] = "live", LiveRoles(u) # {}
      PROVE  LiveRoles(u)' # {}
  <2>1. PICK r \in Roles : /\ r \in bound[u] => LiveRoles(u) \ {r} # {}
                           /\ LiveRoles(u) \ {r} \subseteq LiveRoles(u)'
    BY <1>1, DeletionTakes DEF Alone
  <2>2. LiveRoles(u) \ {r} # {}
    BY <1>1, <2>1 DEF LiveRoles
  <2>3. QED
    BY <2>1, <2>2
<1>2. RbacInv /\ [Next]_rbacVars =>
        [\A q \in Requests : DeletingRole(q) /\ todo'[q] # todo[q] =>
           \A u \in Users : user[u] = "live" /\ LiveRoles(u) # {} => LiveRoles(u)' # {}]_rbacVars
  BY <1>1
<1>3. QED
  BY <1>2, RbacInductive, PTL DEF Spec, RoleDeletionSparesLastRole
=============================================================================
