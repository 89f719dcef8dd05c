--------------------------- MODULE CatalogProofs ---------------------------
(***************************************************************************)
(* While calls do not overlap, references stay live, names unique and      *)
(* prices current, for every number of groups, items, templates, menus and *)
(* names, and whichever statements fail: what a request has checked still  *)
(* holds when it writes (Knows), since nobody else writes meanwhile.       *)
(***************************************************************************)
EXTENDS Catalog, TLAPS

-----------------------------------------------------------------------------
(* Steps that change no table. *)

\* A request at rest, whatever its last call, claims nothing.
LEMMA IdleKnows == Idle \in Request /\ Knows(Idle) /\ Knows(Idle)'
<1>1. Idle \in Request
  BY CatalogAssumption DEF Idle, Request, Labels, Endpoints, OrNull
<1>2. Idle.pc = "idle" /\ Idle.op = "none"
  BY DEF Idle
<1> QED
  BY <1>1, <1>2 DEF Knows

\* It is enough that the request knows what it claims where it goes.
LEMMA Quiet ==
  ASSUME OneAtATime, IInv, UNCHANGED tables, NEW r \in Requests,
         req' \in [Requests -> Request], Knows(req'[r])
  PROVE  IInv'
<1>1. TypeOK'
  BY DEF IInv, TypeOK, tables
<1>2. SpecReferencesLive' /\ NamesUnique' /\ NoOrphans' /\ Refers(Rows)'
  BY DEF IInv, SpecReferencesLive, NamesUnique, NoOrphans, Refers, RefersToLive, Rows, Live, tables
<1>3. Knows(req[r])'
  BY DEF Knows, GroupsNamed, ItemsNamed, TemplatesNamed, Refers, RefersToLive, Rows, Live,
         Ensures, tables
<1> QED
  BY <1>1, <1>2, <1>3 DEF IInv, OneAtATime

\* A call begins with what it knows from its first checks.
LEMMA Begins ==
  ASSUME OneAtATime, IInv, NEW r \in Requests, NEW op \in Endpoints, NEW local \in Request,
         Start(r, op, local), Knows([local EXCEPT !.op = op])
  PROVE  IInv'
<1>1. req \in [Requests -> Request]
  BY DEF IInv, TypeOK
<1>2. [local EXCEPT !.op = op] \in Request
  BY DEF Request
<1>3. req' \in [Requests -> Request] /\ req'[r] = [local EXCEPT !.op = op]
  BY <1>1, <1>2 DEF Start
<1> QED
  BY <1>3, Quiet DEF Start

\* A request goes on to a label and keeps the rest of its state.
LEMMA Goes ==
  ASSUME OneAtATime, IInv, UNCHANGED tables, NEW r \in Requests, NEW label \in Labels,
         Goto(r, label), Knows([req[r] EXCEPT !.pc = label])
  PROVE  IInv'
<1>1. req \in [Requests -> Request] /\ req[r] \in Request
  BY DEF IInv, TypeOK
<1>2. [req[r] EXCEPT !.pc = label] \in Request
  BY <1>1 DEF Request
<1>3. req' \in [Requests -> Request] /\ req'[r] = [req[r] EXCEPT !.pc = label]
  BY <1>1, <1>2 DEF Goto
<1> QED
  BY <1>3, Quiet

\* A request ends, well or in failure, and leaves the tables alone.
LEMMA Ends ==
  ASSUME OneAtATime, IInv, UNCHANGED tables, NEW r \in Requests, End(r)
  PROVE  IInv'
<1>1. req' \in [Requests -> Request] /\ req'[r] = Idle
  BY IdleKnows DEF End, IInv, TypeOK
<1> QED
  BY <1>1, IdleKnows, Quiet

-----------------------------------------------------------------------------
(* Calls. *)

\* Every call on groups, items and templates begins within the invariant.
LEMMA SpecCalls ==
  ASSUME OneAtATime, IInv, NEW r \in Requests, CallSpecs(r)
  PROVE  IInv'
<1> USE CatalogAssumption DEF Request, Labels, OrNull
<1>1. Idle \in Request /\ TypeOK
  BY IdleKnows DEF IInv
<1>2. ASSUME NEW t \in Types, CreateSpecGroup(r, t) PROVE IInv'
  <2> DEFINE local == [Idle EXCEPT !.pc = "insertGroup", !.type = t]
  <2>1. local \in Request
    BY <1>1
  <2>2. Knows([local EXCEPT !.op = "CreateSpecGroup"])
    BY <1>2 DEF CreateSpecGroup, Knows, Idle
  <2>3. Start(r, "CreateSpecGroup", local)
    BY <1>2 DEF CreateSpecGroup
  <2> HIDE DEF local
  <2> QED
    BY <2>1, <2>2, <2>3, Begins DEF Endpoints
<1>3. ASSUME NEW g \in Groups, NEW t \in Types, UpdateSpecGroup(r, g, t) PROVE IInv'
  <2> DEFINE local == [Idle EXCEPT !.pc = "writeGroup", !.group = g, !.type = t]
  <2>1. local \in Request
    BY <1>1
  <2>2. Knows([local EXCEPT !.op = "UpdateSpecGroup"])
    BY <1>3 DEF UpdateSpecGroup, Knows, Idle
  <2>3. Start(r, "UpdateSpecGroup", local)
    BY <1>3 DEF UpdateSpecGroup
  <2> HIDE DEF local
  <2> QED
    BY <2>1, <2>2, <2>3, Begins DEF Endpoints
<1>4. ASSUME NEW g \in Groups, DeleteSpecGroup(r, g) PROVE IInv'
  <2> DEFINE local == [Idle EXCEPT !.pc = "dropGroup", !.group = g]
  <2>1. local \in Request
    BY <1>1
  <2>2. Knows([local EXCEPT !.op = "DeleteSpecGroup"])
    BY <1>4 DEF DeleteSpecGroup, Knows, Idle
  <2>3. Start(r, "DeleteSpecGroup", local)
    BY <1>4 DEF DeleteSpecGroup
  <2> HIDE DEF local
  <2> QED
    BY <2>1, <2>2, <2>3, Begins DEF Endpoints
<1>5. ASSUME NEW g \in Groups, NEW n \in Names, NEW p \in Prices, CreateSpecItem(r, g, n, p)
      PROVE  IInv'
  <2> DEFINE local == [Idle EXCEPT !.pc = "insertItem", !.group = g, !.name = n, !.price = p]
  <2>1. local \in Request
    BY <1>1
  <2>2. Knows([local EXCEPT !.op = "CreateSpecItem"])
    BY <1>5 DEF CreateSpecItem, Knows, Idle
  <2>3. Start(r, "CreateSpecItem", local)
    BY <1>5 DEF CreateSpecItem
  <2> HIDE DEF local
  <2> QED
    BY <2>1, <2>2, <2>3, Begins DEF Endpoints
<1>6. ASSUME NEW i \in Items, NEW g \in Groups, NEW n \in Names, NEW p \in Prices,
             UpdateSpecItem(r, i, g, n, p)
      PROVE  IInv'
  <2> DEFINE local == [Idle EXCEPT !.pc = "writeItem", !.item = i, !.group = g,
                                   !.name = n, !.price = p]
  <2>1. local \in Request
    BY <1>1
  <2>2. Knows([local EXCEPT !.op = "UpdateSpecItem"])
    BY <1>6 DEF UpdateSpecItem, Knows, Idle
  <2>3. Start(r, "UpdateSpecItem", local)
    BY <1>6 DEF UpdateSpecItem
  <2> HIDE DEF local
  <2> QED
    BY <2>1, <2>2, <2>3, Begins DEF Endpoints
<1>7. ASSUME NEW i \in Items, DeleteSpecItem(r, i) PROVE IInv'
  <2> DEFINE local == [Idle EXCEPT !.pc = "countSpecs", !.item = i]
  <2>1. local \in Request
    BY <1>1
  <2>2. Knows([local EXCEPT !.op = "DeleteSpecItem"])
    BY <1>7 DEF DeleteSpecItem, Knows, Idle
  <2>3. Start(r, "DeleteSpecItem", local)
    BY <1>7 DEF DeleteSpecItem
  <2> HIDE DEF local
  <2> QED
    BY <2>1, <2>2, <2>3, Begins DEF Endpoints
<1>8. ASSUME NEW k \in Known(template) \cup {Null}, NEW c \in Categories, NEW p \in Prices,
             NEW i \in Items, TemplateOfItem(r, k, c, i, p)
      PROVE  IInv'
  <2>1. k \in Templates \cup {Null} /\ i \in Live(item) /\ item[i].name \in Names \cup {Null}
        /\ group[item[i].group].type \in Types \cup {Null}
    BY <1>1, <1>8 DEF Known, TypeOK, TemplateOfItem, Live, Item, Group
  <2> DEFINE local == [Idle EXCEPT !.pc = "checkTemplate", !.template = k, !.category = c,
                                   !.item = i, !.type = group[item[i].group].type,
                                   !.name = item[i].name, !.price = p]
  <2>2. local \in Request
    BY <1>1, <2>1
  <2>3. TemplateOp(k) \in {"CreateCategorySpec", "UpdateCategorySpec"}
    BY DEF TemplateOp
  <2>4. Knows([local EXCEPT !.op = TemplateOp(k)])
    BY <2>1, <2>2, <2>3, <1>8 DEF Knows, Idle, TemplateOfItem
  <2>5. Start(r, TemplateOp(k), local)
    BY <1>8 DEF TemplateOfItem
  <2> HIDE DEF local
  <2> QED
    BY <2>2, <2>3, <2>4, <2>5, Begins DEF Endpoints
<1>9. ASSUME NEW k \in Known(template) \cup {Null}, NEW c \in Categories, NEW p \in Prices,
             NEW t \in Types, NEW n \in Names, TemplateOfName(r, k, c, t, n, p)
      PROVE  IInv'
  <2>1. k \in Templates \cup {Null}
    BY <1>1 DEF Known, TypeOK
  <2> DEFINE local == [Idle EXCEPT !.pc = "findGroup", !.template = k, !.category = c,
                                   !.type = t, !.name = n, !.price = p]
  <2>2. local \in Request
    BY <1>1, <2>1
  <2>3. TemplateOp(k) \in {"CreateCategorySpec", "UpdateCategorySpec"}
    BY DEF TemplateOp
  <2>4. Knows([local EXCEPT !.op = TemplateOp(k)])
    BY <2>2, <2>3 DEF Knows, Idle, Ensures
  <2>5. Start(r, TemplateOp(k), local)
    BY <1>9 DEF TemplateOfName
  <2> HIDE DEF local
  <2> QED
    BY <2>2, <2>3, <2>4, <2>5, Begins DEF Endpoints
<1>10. ASSUME NEW k \in Templates, DeleteCategorySpec(r, k) PROVE IInv'
  <2> DEFINE local == [Idle EXCEPT !.pc = "dropTemplate", !.template = k]
  <2>1. local \in Request
    BY <1>1
  <2>2. Knows([local EXCEPT !.op = "DeleteCategorySpec"])
    BY <1>10 DEF DeleteCategorySpec, Knows, Idle
  <2>3. Start(r, "DeleteCategorySpec", local)
    BY <1>10 DEF DeleteCategorySpec
  <2> HIDE DEF local
  <2> QED
    BY <2>1, <2>2, <2>3, Begins DEF Endpoints
<1> QED
  BY <1>2, <1>3, <1>4, <1>5, <1>6, <1>7, <1>8, <1>9, <1>10 DEF CallSpecs

\* Every call on menus and categories does.
LEMMA MenuCalls ==
  ASSUME OneAtATime, IInv, NEW r \in Requests, CallMenus(r)
  PROVE  IInv'
<1> USE CatalogAssumption DEF Request, Labels, OrNull
<1>1. Idle \in Request /\ TypeOK
  BY IdleKnows DEF IInv
<1>2. ASSUME NEW c \in Categories, NEW list \in Lists, CreateMenu(r, c, list) PROVE IInv'
  <2> DEFINE local == [Idle EXCEPT !.pc = "nextSpec", !.category = c, !.todo = list,
                                   !.replaces = TRUE]
  <2>1. local \in Request
    BY <1>1
  <2>2. Knows([local EXCEPT !.op = "CreateMenu"])
    BY <1>2 DEF Knows, Idle, Refers
  <2>3. Start(r, "CreateMenu", local)
    BY <1>2 DEF CreateMenu
  <2> HIDE DEF local
  <2> QED
    BY <2>1, <2>2, <2>3, Begins DEF Endpoints
<1>3. ASSUME NEW m \in Menus, NEW c \in Categories, NEW list \in Lists, UpdateMenu(r, m, c, list, TRUE)
      PROVE  IInv'
  <2> DEFINE local == [Idle EXCEPT !.pc = "nextSpec", !.menu = m, !.category = c, !.todo = list,
                                   !.replaces = TRUE]
  <2>1. local \in Request
    BY <1>1
  <2>2. Knows([local EXCEPT !.op = "UpdateMenu"])
    BY <1>3 DEF UpdateMenu, Knows, Idle, Refers
  <2>3. Start(r, "UpdateMenu", local)
    BY <1>3 DEF UpdateMenu
  <2> HIDE DEF local
  <2> QED
    BY <2>1, <2>2, <2>3, Begins DEF Endpoints
<1>4. ASSUME NEW m \in Menus, NEW c \in Categories, NEW list \in Seq(Wish),
             UpdateMenu(r, m, c, list, FALSE)
      PROVE  IInv'
  <2> DEFINE local == [Idle EXCEPT !.pc = "lockMenu", !.menu = m, !.category = c, !.todo = list,
                                   !.replaces = FALSE]
  <2>1. local \in Request
    BY <1>1
  <2>2. Knows([local EXCEPT !.op = "UpdateMenu"])
    BY <1>4 DEF UpdateMenu, Knows, Idle, Refers
  <2>3. Start(r, "UpdateMenu", local)
    BY <1>4 DEF UpdateMenu
  <2> HIDE DEF local
  <2> QED
    BY <2>1, <2>2, <2>3, Begins DEF Endpoints
<1>5. ASSUME NEW m \in Menus, DeleteMenu(r, m) PROVE IInv'
  <2> DEFINE local == [Idle EXCEPT !.pc = "deleteSpecs", !.menu = m, !.sees = TRUE]
  <2>1. local \in Request
    BY <1>1
  <2>2. Knows([local EXCEPT !.op = "DeleteMenu"])
    BY DEF Knows, Idle
  <2>3. Start(r, "DeleteMenu", local)
    BY <1>5 DEF DeleteMenu
  <2> HIDE DEF local
  <2> QED
    BY <2>1, <2>2, <2>3, Begins DEF Endpoints
<1>6. ASSUME NEW c \in Categories, CreateMenuCategory(r, c) \/ DeleteMenuCategory(r, c)
      PROVE  IInv'
  <2>1. category' \in [Categories -> [state : RowState]]
    BY <1>1, <1>6 DEF CreateMenuCategory, DeleteMenuCategory, TypeOK, RowState
  <2>2. UNCHANGED <<group, item, template, menu, req>>
    BY <1>6 DEF CreateMenuCategory, DeleteMenuCategory
  <2>3. TypeOK'
    BY <1>1, <2>1, <2>2 DEF TypeOK
  <2>4. SpecReferencesLive' /\ NamesUnique' /\ NoOrphans' /\ Refers(Rows)'
    BY <2>2 DEF IInv, SpecReferencesLive, NamesUnique, NoOrphans, Refers, RefersToLive, Rows, Live
  <2>5. ASSUME NEW q \in Requests PROVE Knows(req[q])'
    BY <2>2 DEF IInv, Knows, GroupsNamed, ItemsNamed, TemplatesNamed, Refers, RefersToLive, Rows,
                Live, Ensures
  <2> QED
    BY <2>3, <2>4, <2>5 DEF IInv
<1>7. << >> \in Seq(Wish)
  OBVIOUS
<1> QED
  BY <1>2, <1>3, <1>4, <1>5, <1>6, <1>7 DEF CallMenus

-----------------------------------------------------------------------------
(* Steps of a call that only read. *)

\* A list of specifications that refer to something, with one more that does.
LEMMA ListedRefers ==
  ASSUME NEW specs \in SUBSET Resolved, NEW s \in Resolved, Refers(specs), Refers({s})
  PROVE  Listed(specs, s) \in SUBSET Resolved /\ Refers(Listed(specs, s))
BY DEF Listed, Refers

\* The item of a name has been found, or has just been created.
LEMMA GotItemKnows ==
  ASSUME TypeOK, NEW r \in Requests, Knows(req[r]), Ensures(req[r]),
         NEW i \in Items, GotItem(r, i), UNCHANGED menu, item' \in [Items -> Item], i \in Live(item)'
  PROVE  req' \in [Requests -> Request] /\ Knows(req[r])'
<1> DEFINE q == req[r]
           s == [template |-> Null, item |-> i, copy |-> q.price, type |-> q.type, name |-> q.name]
<1>1. q \in Request /\ r \in DOMAIN req /\ req \in [Requests -> Request]
  BY DEF TypeOK
<1>2. CASE q.op \in {"CreateCategorySpec", "UpdateCategorySpec"}
  <2>1. req' = [req EXCEPT ![r] = [q EXCEPT !.pc = "checkTemplate", !.item = i]]
    BY <1>1, <1>2 DEF GotItem
  <2>2. [q EXCEPT !.pc = "checkTemplate", !.item = i] \in Request
    BY <1>1 DEF Request, Labels, OrNull
  <2>3. req' \in [Requests -> Request] /\ req'[r] = [q EXCEPT !.pc = "checkTemplate", !.item = i]
    BY <1>1, <2>1, <2>2
  <2>4. q.category \in Categories
    BY <1>2 DEF Ensures
  <2> HIDE DEF q
  <2> QED
    BY <1>1, <1>2, <2>3, <2>4 DEF Knows, Request
<1>3. CASE q.op \notin {"CreateCategorySpec", "UpdateCategorySpec"}
  <2> DEFINE to == [q EXCEPT !.pc = "nextSpec", !.todo = Tail(q.todo), !.specs = Listed(q.specs, s)]
  <2>1. req' = [req EXCEPT ![r] = to]
    BY <1>1, <1>3 DEF GotItem
  <2>2. q.op \in {"CreateMenu", "UpdateMenu"} /\ q.todo # << >>
    BY <1>3 DEF Ensures
  <2>3. q.category \in Categories /\ Refers(q.specs)
        /\ (q.op = "CreateMenu" => q.menu = Null)
        /\ (q.op = "UpdateMenu" => q.menu \in Live(menu))
    BY <2>2 DEF Knows
  <2>4. s \in Resolved /\ Refers({s})
    BY <1>1, CatalogAssumption DEF Resolved, Refers, Request, OrNull
  <2>5. Tail(q.todo) \in Seq(Wish)
    BY <1>1, <2>2 DEF Request
  <2>6. Listed(q.specs, s) \in SUBSET Resolved /\ Refers(Listed(q.specs, s))
    BY <1>1, <2>3, <2>4, ListedRefers DEF Request
  <2>7. to \in Request
    BY <1>1, <2>5, <2>6 DEF Request, Labels
  <2>8. req' \in [Requests -> Request] /\ req'[r] = to
    BY <1>1, <2>1, <2>7
  <2>9. /\ to.pc = "nextSpec" /\ to.op = q.op /\ to.category = q.category /\ to.menu = q.menu
        /\ to.specs = Listed(q.specs, s)
    BY <1>1 DEF Request
  <2> HIDE DEF q, to
  <2>10. Live(menu)' = Live(menu)
    BY DEF Live
  <2>11. Refers(req[r].specs)'
    BY <2>6, <2>8, <2>9 DEF Refers
  <2> QED
    BY <2>2, <2>3, <2>8, <2>9, <2>10, <2>11 DEF Knows
<1> QED
  BY <1>2, <1>3

\* resolveMenuSpecs keeps to what the request knows.
LEMMA Resolves ==
  ASSUME OneAtATime, IInv, NEW r \in Requests, NextSpec(r)
  PROVE  IInv'
<1> DEFINE q == req[r]
           wish == Head(q.todo)
<1>1. req \in [Requests -> Request] /\ q \in Request /\ r \in DOMAIN req /\ Knows(q)
  BY DEF IInv, TypeOK
<1>2. wish \in Wish /\ Tail(q.todo) \in Seq(Wish) /\ q.pc = "nextSpec" /\ q.todo # << >>
      /\ UNCHANGED tables
  <2>1. q.todo \in Seq(Wish) /\ q.todo # << >> /\ q.pc = "nextSpec" /\ UNCHANGED tables
    BY <1>1 DEF Request, NextSpec, At
  <2>2. Head(q.todo) \in Wish /\ Tail(q.todo) \in Seq(Wish)
    <3> HIDE DEF q
    <3> QED
      BY <2>1
  <2> QED
    BY <2>1, <2>2
<1>3. q.op \in {"CreateMenu", "UpdateMenu"} /\ q.category \in Categories /\ Refers(q.specs)
      /\ (q.op = "CreateMenu" => q.menu = Null)
      /\ (q.op = "UpdateMenu" => q.menu \in Live(menu))
  BY <1>1, <1>2 DEF Knows
<1>4. ASSUME NEW s \in Resolved, Refers({s}),
             req' = [req EXCEPT ![r].todo = Tail(@), ![r].specs = Listed(@, s)]
      PROVE  IInv'
  <2> DEFINE to == [q EXCEPT !.todo = Tail(q.todo), !.specs = Listed(q.specs, s)]
  <2>1. req' = [req EXCEPT ![r] = to]
    BY <1>1, <1>4
  <2>2. Listed(q.specs, s) \in SUBSET Resolved /\ Refers(Listed(q.specs, s))
    BY <1>1, <1>3, <1>4, ListedRefers DEF Request
  <2>3. to \in Request
    BY <1>1, <1>2, <2>2 DEF Request
  <2>4. req' \in [Requests -> Request] /\ req'[r] = to
    BY <1>1, <2>1, <2>3
  <2>5. /\ to.pc = "nextSpec" /\ to.op = q.op /\ to.category = q.category /\ to.menu = q.menu
        /\ to.specs = Listed(q.specs, s)
    BY <1>1, <1>2 DEF Request
  <2> HIDE DEF q, to
  <2>6. Knows(to)
    BY <1>3, <2>2, <2>5 DEF Knows
  <2> QED
    BY <1>2, <2>4, <2>6, Quiet
<1>5. CASE wish.template # Null \/ wish.item # Null
  <2> DEFINE s == [template |-> wish.template, item |-> wish.item, copy |-> wish.price,
                   type |-> wish.type, name |-> wish.name]
  <2>1. s \in Resolved /\ Refers({s})
    BY <1>2, <1>5 DEF Wish, Resolved, OrNull, Refers
  <2>2. req' = [req EXCEPT ![r].todo = Tail(@), ![r].specs = Listed(@, s)]
    BY <1>5 DEF NextSpec
  <2> QED
    BY <2>1, <2>2, <1>4
<1>6. ASSUME ~ (wish.template # Null \/ wish.item # Null), NEW k \in Matching(r, wish),
             req' = [req EXCEPT ![r].todo = Tail(@), ![r].specs = Listed(@,
                       [template |-> k, item |-> Null,
                        copy |-> IF wish.price = 0 THEN template[k].price ELSE wish.price,
                        type |-> wish.type, name |-> wish.name])]
      PROVE  IInv'
  <2> DEFINE s == [template |-> k, item |-> Null,
                   copy |-> IF wish.price = 0 THEN template[k].price ELSE wish.price,
                   type |-> wish.type, name |-> wish.name]
  <2>1. k \in Templates /\ template[k].price \in Int
    BY <1>6 DEF Matching, TemplatesNamed, Live, IInv, TypeOK, Template
  <2>2. s \in Resolved /\ Refers({s})
    BY <1>2, <2>1, CatalogAssumption DEF Wish, Resolved, OrNull, Refers
  <2> QED
    BY <1>6, <2>2, <1>4
<1>7. ASSUME wish.type # Null, wish.name # Null,
             req' = [req EXCEPT ![r].pc = "findGroup", ![r].type = wish.type,
                                ![r].name = wish.name, ![r].price = wish.price]
      PROVE  IInv'
  <2> DEFINE to == [q EXCEPT !.pc = "findGroup", !.type = wish.type, !.name = wish.name,
                             !.price = wish.price]
  <2>1. req' = [req EXCEPT ![r] = to]
    BY <1>1, <1>7
  <2>2. to \in Request
    BY <1>1, <1>2 DEF Request, Wish, Labels, OrNull
  <2>3. req' \in [Requests -> Request] /\ req'[r] = to
    BY <1>1, <2>1, <2>2
  <2>4. /\ to.pc = "findGroup" /\ to.op = q.op /\ to.category = q.category /\ to.menu = q.menu
        /\ to.specs = q.specs /\ to.todo = q.todo /\ to.type = wish.type /\ to.name = wish.name
    BY <1>1, <1>2 DEF Request
  <2>5. wish.type \in Types /\ wish.name \in Names
    BY <1>2, <1>7 DEF Wish
  <2> HIDE DEF q, to, wish
  <2>6. Knows(to)
    BY <1>2, <1>3, <2>4, <2>5 DEF Knows, Ensures
  <2> QED
    BY <1>2, <2>3, <2>6, Quiet
<1> QED
  BY <1>5, <1>6, <1>7 DEF NextSpec

\* The counts and lookups before a write, and failures.
LEMMA Looks ==
  ASSUME OneAtATime, IInv, NEW r \in Requests,
         \/ CountSpecs(r) \/ FindGroup(r) \/ FindItem(r) \/ CheckTemplate(r)
         \/ SpecsResolved(r) \/ Validate(r) \/ ReplaceSpecs(r) \/ DeleteSpecs(r) \/ Fail(r)
  PROVE  IInv'
<1> DEFINE q == req[r]
           at(label) == [q EXCEPT !.pc = label]
<1>1. TypeOK /\ req \in [Requests -> Request] /\ q \in Request /\ r \in DOMAIN req /\ Knows(q)
  BY DEF IInv, TypeOK
<1>2. \A label \in Labels :
        /\ at(label).pc = label
        /\ at(label).op = q.op /\ at(label).category = q.category /\ at(label).group = q.group
        /\ at(label).item = q.item /\ at(label).template = q.template
        /\ at(label).menu = q.menu /\ at(label).type = q.type /\ at(label).name = q.name
        /\ at(label).price = q.price /\ at(label).todo = q.todo /\ at(label).specs = q.specs
        /\ at(label).sees = q.sees
  BY <1>1 DEF Request
<1>3. ASSUME NEW label \in Labels, Goto(r, label), UNCHANGED tables, Knows(at(label)) PROVE IInv'
  BY <1>3, Goes
<1> HIDE DEF at, q
<1>4. CASE CountSpecs(r)
  <2>1. CASE End(r)
    BY <1>4, <2>1, Ends DEF CountSpecs
  <2>2. CASE Goto(r, "dropItem") /\ ~ \E s \in Rows : s.item = q.item
    <3>1. Knows(at("dropItem"))
      BY <1>1, <1>2, <1>4, <2>2 DEF CountSpecs, Knows, At, q, Labels
    <3> QED
      BY <1>3, <1>4, <2>2, <3>1 DEF CountSpecs, Labels
  <2> QED
    BY <1>4, <2>1, <2>2 DEF CountSpecs, q
<1>5. CASE FindGroup(r)
  <2>1. CASE GroupsNamed(q.type) = {} /\ Goto(r, "insertGroup")
    <3>1. Ensures(q) /\ q.pc = "findGroup"
      BY <1>1, <1>5 DEF FindGroup, Knows, At, q
    <3>2. Ensures(at("insertGroup"))
      BY <1>2, <3>1 DEF Ensures, Labels
    <3>3. GroupsNamed(at("insertGroup").type) = {} /\ at("insertGroup").type \in Types
      BY <1>2, <2>1, <3>1 DEF Labels, Ensures
    <3>4. Knows(at("insertGroup"))
      BY <1>1, <1>2, <3>1, <3>2, <3>3 DEF Knows, Labels
    <3> QED
      BY <1>3, <1>5, <2>1, <3>4 DEF FindGroup, Labels
  <2>2. ASSUME NEW g \in Groups, GroupsNamed(q.type) = {g},
               req' = [req EXCEPT ![r].pc = "findItem", ![r].group = g]
        PROVE  IInv'
    <3> DEFINE to == [q EXCEPT !.pc = "findItem", !.group = g]
    <3>1. req' = [req EXCEPT ![r] = to]
      BY <1>1, <2>2 DEF q
    <3>2. /\ to \in Request
          /\ to.pc = "findItem" /\ to.group = g /\ to.op = q.op
          /\ to.category = q.category /\ to.menu = q.menu /\ to.specs = q.specs
          /\ to.todo = q.todo /\ to.type = q.type /\ to.name = q.name
      <4>1. g \in OrNull(Groups) /\ "findItem" \in Labels
        BY DEF OrNull, Labels
      <4> QED
        BY <1>1, <4>1 DEF Request
    <3>3. g \in Live(group)
      BY <2>2 DEF GroupsNamed
    <3> HIDE DEF to
    <3>4. Knows(to)
      BY <1>1, <1>5, <3>2, <3>3 DEF FindGroup, Knows, At, Ensures, q
    <3>5. req' \in [Requests -> Request] /\ req'[r] = to /\ UNCHANGED tables
      BY <1>1, <1>5, <3>1, <3>2 DEF FindGroup
    <3> QED
      BY <3>4, <3>5, Quiet
  <2> QED
    BY <1>5, <2>1, <2>2 DEF FindGroup, q
<1>6. CASE FindItem(r)
  <2>1. CASE ItemsNamed(q.group, q.name) = {} /\ Goto(r, "insertItem")
    <3>1. Knows(at("insertItem"))
      BY <1>1, <1>2, <1>6, <2>1 DEF FindItem, Knows, At, Ensures, q, Labels
    <3> QED
      BY <1>3, <1>6, <2>1, <3>1 DEF FindItem, Labels
  <2>2. ASSUME NEW i \in Items, ItemsNamed(q.group, q.name) = {i}, GotItem(r, i)
        PROVE  IInv'
    <3>1. Ensures(q) /\ UNCHANGED tables
      BY <1>1, <1>6 DEF FindItem, Knows, At, q
    <3>2. i \in Live(item)' /\ item' \in [Items -> Item] /\ UNCHANGED menu
      BY <1>1, <2>2, <3>1 DEF ItemsNamed, Live, tables, TypeOK
    <3>3. req' \in [Requests -> Request] /\ Knows(req[r])'
      BY <1>1, <2>2, <3>1, <3>2, GotItemKnows DEF q
    <3>4. Knows(req'[r])
      BY <3>1, <3>3 DEF Knows, GroupsNamed, ItemsNamed, TemplatesNamed, Refers, RefersToLive,
                        Rows, Live, Ensures, tables
    <3> QED
      BY <3>1, <3>3, <3>4, Quiet
  <2> QED
    BY <1>6, <2>1, <2>2 DEF FindItem, q
<1>7. CASE CheckTemplate(r)
  <2>1. CASE End(r)
    BY <1>7, <2>1, Ends DEF CheckTemplate
  <2>2. CASE /\ TemplatesNamed(q.category, q.type, q.name) \subseteq {q.template}
             /\ q.template = Null /\ Goto(r, "insertTemplate")
    <3>1. \A k \in Live(template) : k # Null
      BY <1>1, CatalogAssumption DEF TypeOK, Live
    <3>2. TemplatesNamed(q.category, q.type, q.name) = {}
      BY <2>2, <3>1 DEF TemplatesNamed
    <3>3. Knows(at("insertTemplate"))
      BY <1>1, <1>2, <1>7, <3>2 DEF CheckTemplate, Knows, At, q, Labels
    <3> QED
      BY <1>3, <1>7, <2>2, <3>3 DEF CheckTemplate, Labels
  <2>3. CASE /\ TemplatesNamed(q.category, q.type, q.name) \subseteq {q.template}
             /\ q.template # Null /\ Goto(r, "writeTemplate")
    <3>1. q.template \in Templates
      BY <1>1, <2>3 DEF Request, OrNull
    <3>2. Knows(at("writeTemplate"))
      BY <1>1, <1>2, <1>7, <2>3, <3>1 DEF CheckTemplate, Knows, At, q, Labels
    <3> QED
      BY <1>3, <1>7, <2>3, <3>2 DEF CheckTemplate, Labels
  <2> QED
    BY <1>7, <2>1, <2>2, <2>3 DEF CheckTemplate, q
<1>8. CASE SpecsResolved(r)
  <2>1. ASSUME NEW label \in {"validate", "lockMenu"}, Goto(r, label),
               label = "lockMenu" => q.menu # Null
        PROVE  IInv'
    <3>1. q.op \in {"CreateMenu", "UpdateMenu"}
      BY <1>1, <1>8 DEF SpecsResolved, At, Knows, q
    <3>2. label = "lockMenu" => q.op = "UpdateMenu"
      BY <1>1, <2>1, <3>1 DEF Knows
    <3>3. Knows(at(label))
      BY <1>1, <1>2, <1>8, <2>1, <3>1, <3>2 DEF SpecsResolved, Knows, At, q, Labels
    <3> QED
      BY <1>3, <1>8, <2>1, <3>3 DEF SpecsResolved, Labels
  <2> QED
    BY <1>8, <2>1 DEF SpecsResolved, q
<1>9. CASE Validate(r)
  <2>1. CASE End(r)
    BY <1>9, <2>1, Ends DEF Validate
  <2>2. ASSUME NEW label \in {"insertMenu", "replaceSpecs"}, Goto(r, label), Valid(r),
               label = "replaceSpecs" => q.menu # Null
        PROVE  IInv'
    <3>1. RefersToLive(q.specs)
      BY <2>2 DEF Valid, RefersToLive, q
    <3>2. q.op \in {"CreateMenu", "UpdateMenu"}
      BY <1>1, <1>9 DEF Validate, At, Knows, q
    <3>3. label = "replaceSpecs" => q.op = "UpdateMenu"
      BY <1>1, <2>2, <3>2 DEF Knows
    <3>4. Knows(at(label))
      BY <1>1, <1>2, <1>9, <2>2, <3>1, <3>2, <3>3 DEF Validate, Knows, At, q, Labels
    <3> QED
      BY <1>3, <1>9, <2>2, <3>4 DEF Validate, Labels
  <2> QED
    BY <1>9, <2>1, <2>2 DEF Validate, q
<1>10. CASE ReplaceSpecs(r)
  <2>1. Knows(at("commitMenu"))
    BY <1>1, <1>2, <1>10 DEF ReplaceSpecs, Knows, At, q, Labels
  <2> QED
    BY <1>3, <1>10, <2>1 DEF ReplaceSpecs, Labels
<1>11. CASE DeleteSpecs(r)
  <2>1. Knows(at("dropMenu"))
    BY <1>1, <1>2, <1>11 DEF DeleteSpecs, Knows, At, q, Labels
  <2> QED
    BY <1>3, <1>11, <2>1 DEF DeleteSpecs, Labels
<1>12. CASE Fail(r)
  BY <1>12, Ends DEF Fail
<1> QED
  BY <1>4, <1>5, <1>6, <1>7, <1>8, <1>9, <1>10, <1>11, <1>12

-----------------------------------------------------------------------------
(* Steps that write groups and items. *)

\* A request that ends claims nothing of the tables, whatever it has written.
LEMMA Rests ==
  ASSUME TypeOK, NEW r \in Requests, End(r)
  PROVE  req' \in [Requests -> Request] /\ Knows(req[r])'
<1>1. req' \in [Requests -> Request] /\ req'[r] = Idle
  BY IdleKnows DEF End, TypeOK
<1>2. Idle.pc = "idle" /\ Idle.op = "none"
  BY DEF Idle
<1> QED
  BY <1>1, <1>2 DEF Knows

\* A new group has a name nobody has, and is there for the item to come.
LEMMA InsertsGroup ==
  ASSUME OneAtATime, IInv, NEW r \in Requests, InsertGroup(r)
  PROVE  IInv'
<1> DEFINE q == req[r]
<1>1. TypeOK /\ req \in [Requests -> Request] /\ q \in Request /\ r \in DOMAIN req /\ Knows(q)
  BY DEF IInv, TypeOK
<1>2. PICK g \in Groups :
        /\ group[g].state = "none"
        /\ group' = [group EXCEPT ![g] = [state |-> "live", type |-> q.type]]
        /\ IF q.op = "CreateSpecGroup" THEN End(r)
           ELSE req' = [req EXCEPT ![r].pc = "findItem", ![r].group = g]
  BY DEF InsertGroup
<1>3. UNCHANGED <<category, item, template, menu>> /\ q.pc = "insertGroup"
  BY DEF InsertGroup, At
<1>4. GroupsNamed(q.type) = {} /\ (q.op = "CreateSpecGroup" \/ Ensures(q))
  BY <1>1, <1>3 DEF Knows
<1>5. group' \in [Groups -> Group]
  BY <1>1, <1>2 DEF TypeOK, Group, RowState, Request, OrNull
<1>6. Live(group)' = Live(group) \cup {g} /\ g \notin Live(group)
  BY <1>1, <1>2 DEF Live, TypeOK, Group
<1>7. req' \in [Requests -> Request] /\ Knows(req[r])'
  <2>1. CASE q.op = "CreateSpecGroup"
    BY <1>1, <1>2, <2>1, Rests
  <2>2. CASE q.op # "CreateSpecGroup"
    <3> DEFINE to == [q EXCEPT !.pc = "findItem", !.group = g]
    <3>1. req' = [req EXCEPT ![r] = to]
      BY <1>1, <1>2, <2>2
    <3>2. /\ to \in Request
          /\ to.pc = "findItem" /\ to.group = g /\ to.op = q.op
          /\ to.category = q.category /\ to.menu = q.menu /\ to.specs = q.specs
          /\ to.todo = q.todo /\ to.type = q.type /\ to.name = q.name
      <4>1. g \in OrNull(Groups) /\ "findItem" \in Labels
        BY DEF OrNull, Labels
      <4> QED
        BY <1>1, <4>1 DEF Request
    <3>3. req' \in [Requests -> Request] /\ req'[r] = to
      BY <1>1, <3>1, <3>2
    <3>4. Ensures(q)
      BY <1>4, <2>2
    <3> HIDE DEF to, q
    <3>5. Ensures(req[r])'
      BY <3>2, <3>3, <3>4 DEF Ensures
    <3>6. req'[r].group \in Live(group)' /\ Live(menu)' = Live(menu)
      BY <1>3, <1>6, <3>2, <3>3 DEF Live
    <3>7. Refers(q.specs) => Refers(req[r].specs)'
      BY <3>2, <3>3 DEF Refers
    <3> QED
      BY <1>1, <3>2, <3>3, <3>5, <3>6, <3>7 DEF Knows
  <2> QED
    BY <2>1, <2>2
<1>8. TypeOK'
  BY <1>1, <1>3, <1>5, <1>7 DEF TypeOK
<1>9. SpecReferencesLive'
  BY <1>3, <1>6 DEF IInv, SpecReferencesLive, RefersToLive, Rows, Live
<1>10. NamesUnique'
  <2>1. \A h \in Live(group) : group'[h] = group[h] /\ group[h].type # q.type
    BY <1>1, <1>2, <1>4, <1>6 DEF GroupsNamed, Live, TypeOK
  <2>2. group'[g].type = q.type
    BY <1>1, <1>2 DEF TypeOK
  <2>3. \A h, k \in Live(group)' : group'[h].type = group'[k].type => h = k
    BY <1>6, <2>1, <2>2 DEF IInv, NamesUnique
  <2> QED
    BY <1>3, <2>3 DEF IInv, NamesUnique, Live
<1>11. NoOrphans' /\ Refers(Rows)'
  BY <1>3 DEF IInv, NoOrphans, Refers, Rows
<1> QED
  BY <1>7, <1>8, <1>9, <1>10, <1>11 DEF IInv, OneAtATime

\* A group keeps the items it has and takes a name nobody else has.
LEMMA WritesGroup ==
  ASSUME OneAtATime, IInv, NEW r \in Requests, WriteGroup(r)
  PROVE  IInv'
<1> DEFINE q == req[r]
<1>1. TypeOK /\ q \in Request /\ Knows(q)
  BY DEF IInv, TypeOK
<1>2. /\ UNCHANGED <<category, item, template, menu>> /\ End(r)
      /\ q.group \in Groups /\ GroupsNamed(q.type) \subseteq {q.group}
      /\ group' = [group EXCEPT ![q.group].type = q.type]
  BY <1>1 DEF WriteGroup, At, Knows
<1>3. req' \in [Requests -> Request] /\ Knows(req[r])'
  BY <1>1, <1>2, Rests
<1>4. group' \in [Groups -> Group]
  BY <1>1, <1>2 DEF TypeOK, Group, Request, OrNull
<1>5. Live(group)' = Live(group)
  BY <1>1, <1>2 DEF Live, TypeOK, Group
<1>6. TypeOK'
  BY <1>1, <1>2, <1>3, <1>4 DEF TypeOK
<1>7. SpecReferencesLive'
  BY <1>2, <1>5 DEF IInv, SpecReferencesLive, RefersToLive, Rows, Live
<1>8. NamesUnique'
  <2>1. \A h \in Live(group) : h # q.group => group'[h].type = group[h].type /\ group[h].type # q.type
    BY <1>1, <1>2 DEF GroupsNamed, Live, TypeOK
  <2>2. group'[q.group].type = q.type
    BY <1>1, <1>2 DEF TypeOK, Group
  <2>3. \A h, k \in Live(group)' : group'[h].type = group'[k].type => h = k
    BY <1>5, <2>1, <2>2 DEF IInv, NamesUnique
  <2> QED
    BY <1>2, <2>3 DEF IInv, NamesUnique, Live
<1>9. NoOrphans' /\ Refers(Rows)'
  BY <1>2 DEF IInv, NoOrphans, Refers, Rows
<1> QED
  BY <1>3, <1>6, <1>7, <1>8, <1>9 DEF IInv, OneAtATime

\* A group goes that no item is in.
LEMMA DropsGroup ==
  ASSUME OneAtATime, IInv, NEW r \in Requests, DropGroup(r)
  PROVE  IInv'
<1> DEFINE q == req[r]
<1>1. TypeOK /\ q \in Request /\ Knows(q)
  BY DEF IInv, TypeOK
<1>2. /\ UNCHANGED <<category, item, template, menu>> /\ End(r)
      /\ q.group \in Groups /\ \A i \in Live(item) : item[i].group # q.group
      /\ group' = [group EXCEPT ![q.group].state = Gone(@)]
  BY <1>1 DEF DropGroup, At, Knows
<1>3. req' \in [Requests -> Request] /\ Knows(req[r])'
  BY <1>1, <1>2, Rests
<1>4. group' \in [Groups -> Group]
  BY <1>1, <1>2 DEF TypeOK, Group, Gone, RowState
<1>5. Live(group)' = Live(group) \ {q.group} /\ \A h \in Groups : group'[h].type = group[h].type
  BY <1>1, <1>2 DEF Live, TypeOK, Group, Gone
<1>6. TypeOK'
  BY <1>1, <1>2, <1>3, <1>4 DEF TypeOK
<1>7. SpecReferencesLive'
  BY <1>2, <1>5 DEF IInv, SpecReferencesLive, RefersToLive, Rows, Live
<1>8. NamesUnique'
  <2>1. \A h, k \in Live(group)' : group'[h].type = group'[k].type => h = k
    BY <1>1, <1>5 DEF IInv, NamesUnique, Live, TypeOK
  <2> QED
    BY <1>2, <2>1 DEF IInv, NamesUnique, Live
<1>9. NoOrphans' /\ Refers(Rows)'
  BY <1>2 DEF IInv, NoOrphans, Refers, Rows
<1> QED
  BY <1>3, <1>6, <1>7, <1>8, <1>9 DEF IInv, OneAtATime

\* A new item is in a group that is there, under a name its group does not have.
LEMMA InsertsItem ==
  ASSUME OneAtATime, IInv, NEW r \in Requests, InsertItem(r)
  PROVE  IInv'
<1> DEFINE q == req[r]
<1>1. TypeOK /\ req \in [Requests -> Request] /\ q \in Request /\ Knows(q)
  BY DEF IInv, TypeOK
<1>2. PICK i \in Items :
        /\ item[i].state = "none"
        /\ item' = [item EXCEPT ![i] = [state |-> "live", group |-> q.group,
                                       name |-> q.name, price |-> q.price]]
        /\ IF q.op = "CreateSpecItem" THEN End(r) ELSE GotItem(r, i)
  BY DEF InsertItem
<1>3. UNCHANGED <<category, group, template, menu>> /\ q.pc = "insertItem"
  BY DEF InsertItem, At
<1>4. /\ q.group \in Live(group) /\ ItemsNamed(q.group, q.name) = {}
      /\ q.op = "CreateSpecItem" \/ Ensures(q)
  BY <1>1, <1>3 DEF Knows
<1>5. item' \in [Items -> Item]
  BY <1>1, <1>2 DEF TypeOK, Item, RowState, Request
<1>6. Live(item)' = Live(item) \cup {i} /\ i \notin Live(item)
  BY <1>1, <1>2 DEF Live, TypeOK, Item
<1>7. req' \in [Requests -> Request] /\ Knows(req[r])'
  <2>1. CASE q.op = "CreateSpecItem"
    BY <1>1, <1>2, <2>1, Rests
  <2>2. CASE q.op # "CreateSpecItem"
    BY <1>1, <1>2, <1>3, <1>4, <1>5, <1>6, <2>2, GotItemKnows
  <2> QED
    BY <2>1, <2>2
<1>8. TypeOK'
  BY <1>1, <1>3, <1>5, <1>7 DEF TypeOK
<1>9. \A j \in Live(item) : item'[j] = item[j]
  BY <1>1, <1>2, <1>6 DEF Live, TypeOK
<1>10. item'[i].group = q.group /\ item'[i].name = q.name
  BY <1>1, <1>2 DEF TypeOK
<1>11. SpecReferencesLive'
  <2>1. \A j \in Live(item)' : item'[j].group \in Live(group)'
    BY <1>3, <1>4, <1>6, <1>9, <1>10 DEF IInv, SpecReferencesLive, Live
  <2>2. \A k \in Live(template)' : template'[k].item \in Live(item)'
    BY <1>3, <1>6 DEF IInv, SpecReferencesLive, Live
  <2>3. RefersToLive(Rows)'
    BY <1>3, <1>6 DEF IInv, SpecReferencesLive, RefersToLive, Rows, Live
  <2> QED
    BY <2>1, <2>2, <2>3 DEF SpecReferencesLive
<1>12. NamesUnique'
  <2>1. \A j \in Live(item) : ~ (item[j].group = q.group /\ item[j].name = q.name)
    BY <1>4 DEF ItemsNamed
  <2>2. \A j, k \in Live(item)' : item'[j].group = item'[k].group /\ item'[j].name = item'[k].name
                                  => j = k
    BY <1>6, <1>9, <1>10, <2>1 DEF IInv, NamesUnique
  <2> QED
    BY <1>3, <2>2 DEF IInv, NamesUnique, Live
<1>13. NoOrphans' /\ Refers(Rows)'
  BY <1>3 DEF IInv, NoOrphans, Refers, Rows
<1> QED
  BY <1>7, <1>8, <1>11, <1>12, <1>13 DEF IInv, OneAtATime

\* An item keeps its templates and menus, wherever it moves and whatever it is
\* called, and its request knows what its copies are to cost.
LEMMA WritesItem ==
  ASSUME OneAtATime, IInv, NEW r \in Requests, WriteItem(r)
  PROVE  IInv'
<1> DEFINE q == req[r]
           to == [q EXCEPT !.pc = "copyTemplates"]
<1>1. TypeOK /\ req \in [Requests -> Request] /\ q \in Request /\ Knows(q)
  BY DEF IInv, TypeOK
<1>2. /\ UNCHANGED <<category, group, template, menu>> /\ q.pc = "writeItem"
      /\ q.item \in Items /\ q.group \in Live(group) /\ q.name \in Names
      /\ ItemsNamed(q.group, q.name) \subseteq {q.item}
      /\ item' = [item EXCEPT ![q.item].group = q.group, ![q.item].name = q.name,
                              ![q.item].price = q.price]
      /\ req' = [req EXCEPT ![r] = to]
  BY <1>1 DEF WriteItem, At, Knows, Goto
<1>3. to \in Request /\ to.pc = "copyTemplates" /\ to.op = q.op /\ to.item = q.item
      /\ to.price = q.price /\ to.category = q.category /\ to.menu = q.menu /\ to.specs = q.specs
  BY <1>1 DEF Request, Labels
<1>4. req' \in [Requests -> Request] /\ req'[r] = to
  BY <1>1, <1>2, <1>3
<1>5. item[q.item] \in Item /\ item' = [item EXCEPT ![q.item] =
        [item[q.item] EXCEPT !.group = q.group, !.name = q.name, !.price = q.price]]
  BY <1>1, <1>2 DEF TypeOK
<1>6. /\ [item[q.item] EXCEPT !.group = q.group, !.name = q.name, !.price = q.price] \in Item
      /\ item'[q.item].group = q.group /\ item'[q.item].name = q.name
      /\ item'[q.item].price = q.price /\ item'[q.item].state = item[q.item].state
  <2>1. q.group \in OrNull(Groups) /\ q.name \in OrNull(Names) /\ q.price \in Int
    BY <1>1 DEF Request
  <2>2. item'[q.item] = [item[q.item] EXCEPT !.group = q.group, !.name = q.name, !.price = q.price]
    BY <1>1, <1>2, <1>5 DEF TypeOK
  <2> HIDE DEF q
  <2> QED
    BY <1>5, <2>1, <2>2 DEF Item
<1>7. item' \in [Items -> Item]
  BY <1>1, <1>5, <1>6 DEF TypeOK
<1>8. \A j \in Items : j # q.item => item'[j] = item[j]
  BY <1>1, <1>5 DEF TypeOK
<1>9. Live(item)' = Live(item)
  BY <1>1, <1>6, <1>7, <1>8 DEF Live, TypeOK
<1>10. Live(item) \subseteq Items
  BY <1>1 DEF Live, TypeOK
<1>11. Knows(req[r])'
  <2>1. Live(menu)' = Live(menu)
    BY <1>2 DEF Live
  <2>2. Refers(q.specs) => Refers(req[r].specs)'
    BY <1>3, <1>4 DEF Refers
  <2> HIDE DEF q, to
  <2> QED
    BY <1>1, <1>3, <1>4, <1>6, <1>2, <2>1, <2>2 DEF Knows
<1>12. TypeOK'
  BY <1>1, <1>2, <1>4, <1>7 DEF TypeOK
<1>13. SpecReferencesLive'
  <2>1. \A j \in Live(item)' : item'[j].group \in Live(group)'
    BY <1>2, <1>6, <1>8, <1>9, <1>10 DEF IInv, SpecReferencesLive, Live
  <2>2. \A k \in Live(template)' : template'[k].item \in Live(item)'
    BY <1>2, <1>9 DEF IInv, SpecReferencesLive, Live
  <2>3. RefersToLive(Rows)'
    BY <1>2, <1>9 DEF IInv, SpecReferencesLive, RefersToLive, Rows, Live
  <2> QED
    BY <2>1, <2>2, <2>3 DEF SpecReferencesLive
<1>14. NamesUnique'
  <2>1. \A j \in Live(item) : j # q.item => ~ (item[j].group = q.group /\ item[j].name = q.name)
    BY <1>2 DEF ItemsNamed
  <2>2. \A j, k \in Live(item)' : item'[j].group = item'[k].group /\ item'[j].name = item'[k].name
                                  => j = k
    BY <1>6, <1>8, <1>9, <1>10, <2>1 DEF IInv, NamesUnique
  <2> QED
    BY <1>2, <2>2 DEF IInv, NamesUnique, Live
<1>15. NoOrphans' /\ Refers(Rows)'
  BY <1>2 DEF IInv, NoOrphans, Refers, Rows
<1> QED
  BY <1>4, <1>11, <1>12, <1>13, <1>14, <1>15 DEF IInv, OneAtATime

\* The item's templates get its price, and keep what they stand for.
LEMMA CopiesTemplates ==
  ASSUME OneAtATime, IInv, NEW r \in Requests, CopyTemplates(r)
  PROVE  IInv'
<1> DEFINE q == req[r]
           to == [q EXCEPT !.pc = "copySpecs"]
<1>1. TypeOK /\ req \in [Requests -> Request] /\ q \in Request /\ Knows(q)
  BY DEF IInv, TypeOK
<1>2. /\ UNCHANGED <<category, group, item, menu>> /\ q.pc = "copyTemplates"
      /\ q.item \in Items /\ item[q.item].price = q.price
      /\ template' = [k \in Templates |->
           IF template[k].state # "none" /\ template[k].item = q.item
           THEN [template[k] EXCEPT !.price = q.price] ELSE template[k]]
      /\ req' = [req EXCEPT ![r] = to]
  BY <1>1 DEF CopyTemplates, At, Knows, Goto
<1>3. to \in Request /\ to.pc = "copySpecs" /\ to.op = q.op /\ to.item = q.item
      /\ to.price = q.price /\ to.category = q.category /\ to.menu = q.menu /\ to.specs = q.specs
  BY <1>1 DEF Request, Labels
<1>4. req' \in [Requests -> Request] /\ req'[r] = to
  BY <1>1, <1>2, <1>3
<1>5. template' \in [Templates -> Template]
  <2>1. q.price \in Int
    BY <1>1 DEF Request
  <2>2. \A k \in Templates : template[k] \in Template
    BY <1>1 DEF TypeOK
  <2>3. \A t \in Template : [t EXCEPT !.price = q.price] \in Template
    BY <2>1 DEF Template
  <2> HIDE DEF q
  <2> QED
    BY <1>2, <2>2, <2>3
<1>6. \A k \in Templates :
        /\ template'[k].state = template[k].state /\ template'[k].item = template[k].item
        /\ template'[k].category = template[k].category /\ template'[k].type = template[k].type
        /\ template'[k].name = template[k].name
        /\ template[k].state = "live" /\ template[k].item = q.item => template'[k].price = q.price
  BY <1>1, <1>2 DEF TypeOK, Template
<1>7. Live(template)' = Live(template) /\ Live(template) \subseteq Templates
  BY <1>1, <1>5, <1>6 DEF Live, TypeOK
<1>8. Knows(req[r])'
  <2>1. Live(menu)' = Live(menu)
    BY <1>2 DEF Live
  <2>2. Refers(q.specs) => Refers(req[r].specs)'
    BY <1>3, <1>4 DEF Refers
  <2>3. \A k \in Live(template)' : template'[k].item = q.item => template'[k].price = q.price
    BY <1>6, <1>7 DEF Live
  <2> HIDE DEF q, to
  <2> QED
    BY <1>1, <1>2, <1>3, <1>4, <2>1, <2>2, <2>3 DEF Knows
<1>9. TypeOK'
  BY <1>1, <1>2, <1>4, <1>5 DEF TypeOK
<1>10. SpecReferencesLive'
  <2>1. \A k \in Live(template)' : template'[k].item \in Live(item)'
    BY <1>2, <1>6, <1>7 DEF IInv, SpecReferencesLive, Live
  <2>2. RefersToLive(Rows)'
    BY <1>2, <1>7 DEF IInv, SpecReferencesLive, RefersToLive, Rows, Live
  <2> QED
    BY <1>2, <2>1, <2>2 DEF IInv, SpecReferencesLive, Live
<1>11. NamesUnique'
  <2>1. \A k, l \in Live(template)' :
          /\ template'[k].category = template'[l].category
          /\ template'[k].type = template'[l].type
          /\ template'[k].name = template'[l].name
          => k = l
    BY <1>6, <1>7 DEF IInv, NamesUnique
  <2> QED
    BY <1>2, <2>1 DEF IInv, NamesUnique, Live
<1>12. NoOrphans' /\ Refers(Rows)'
  BY <1>2 DEF IInv, NoOrphans, Refers, Rows
<1> QED
  BY <1>4, <1>8, <1>9, <1>10, <1>11, <1>12 DEF IInv, OneAtATime

\* Copying a price changes no reference: a row of a menu comes from one that
\* refers to the same template and item, and has its price if that was hit.
LEMMA Copies ==
  ASSUME IInv, NEW r \in Requests, NEW hit, CopyPrice(r, hit),
         UNCHANGED <<category, group, item, template>>
  PROVE  /\ menu' \in [Menus -> Menu]
         /\ Live(menu)' = Live(menu)
         /\ \A m \in Menus : \A s \in menu'[m].specs : \E old \in menu[m].specs :
              /\ s.template = old.template /\ s.item = old.item
              /\ IF old \in hit THEN s.copy = req[r].price ELSE s = old
         /\ SpecReferencesLive' /\ NamesUnique' /\ NoOrphans' /\ Refers(Rows)'
<1> DEFINE p == req[r].price
           new(s) == IF s \in hit THEN [s EXCEPT !.copy = p] ELSE s
<1>1. p \in Int /\ menu \in [Menus -> Menu] /\ TypeOK
  BY DEF IInv, TypeOK, Request
<1>2. \A s \in MenuSpec : new(s) \in MenuSpec /\ new(s).template = s.template
                          /\ new(s).item = s.item /\ (s \in hit => new(s).copy = p)
  BY <1>1 DEF MenuSpec
<1>3. menu' = [m \in Menus |-> [menu[m] EXCEPT !.specs = {new(s) : s \in menu[m].specs}]]
  BY DEF CopyPrice
<1> HIDE DEF p, new
<1>4. \A m \in Menus : /\ menu'[m].state = menu[m].state
                       /\ menu'[m].specs = {new(s) : s \in menu[m].specs}
                       /\ menu[m].specs \subseteq MenuSpec
  BY <1>1, <1>3 DEF Menu
<1>5. menu' \in [Menus -> Menu]
  <2>1. ASSUME NEW m \in Menus
        PROVE  [menu[m] EXCEPT !.specs = {new(s) : s \in menu[m].specs}] \in Menu
    <3>1. {new(s) : s \in menu[m].specs} \in SUBSET MenuSpec
      BY <1>2, <1>4
    <3> HIDE DEF new
    <3> QED
      BY <1>1, <3>1 DEF Menu
  <2> QED
    BY <1>3, <2>1
<1>6. Live(menu)' = Live(menu)
  BY <1>1, <1>4, <1>5 DEF Live
<1>7. ASSUME NEW m \in Menus, NEW s \in menu'[m].specs
      PROVE  \E old \in menu[m].specs :
               /\ s.template = old.template /\ s.item = old.item
               /\ IF old \in hit THEN s.copy = p ELSE s = old
  <2>1. PICK old \in menu[m].specs : s = new(old)
    BY <1>4
  <2>2. old \in MenuSpec
    BY <1>4
  <2>3. old \notin hit => s = old
    BY <2>1 DEF new
  <2> QED
    BY <1>2, <2>1, <2>2, <2>3
<1>8. \A s \in Rows' : \E old \in Rows : s.template = old.template /\ s.item = old.item
  BY <1>7 DEF Rows
<1>9. Refers(Rows)'
  BY <1>8 DEF IInv, Refers
<1>10. RefersToLive(Rows)'
  <2>1. Live(template)' = Live(template) /\ Live(item)' = Live(item)
    BY DEF Live
  <2> QED
    BY <1>8, <2>1 DEF IInv, SpecReferencesLive, RefersToLive
<1>11. SpecReferencesLive'
  BY <1>10 DEF IInv, SpecReferencesLive, Live
<1>12. NamesUnique'
  BY DEF IInv, NamesUnique, Live
<1>13. NoOrphans'
  BY <1>4 DEF IInv, NoOrphans
<1> QED
  BY <1>5, <1>6, <1>7, <1>9, <1>11, <1>12, <1>13 DEF p

\* Menus that offer the item directly get its price.
LEMMA CopiesSpecs ==
  ASSUME OneAtATime, IInv, NEW r \in Requests, CopySpecs(r)
  PROVE  IInv'
<1> DEFINE q == req[r]
           to == [q EXCEPT !.pc = "copyThrough"]
           hit == {s \in Rows : s.item = q.item}
<1>1. TypeOK /\ req \in [Requests -> Request] /\ q \in Request /\ Knows(q)
  BY DEF IInv, TypeOK
<1>2. /\ UNCHANGED <<category, group, item, template>> /\ q.pc = "copySpecs"
      /\ q.item \in Items /\ item[q.item].price = q.price
      /\ \A k \in Live(template) : template[k].item = q.item => template[k].price = q.price
      /\ CopyPrice(r, hit)
      /\ req' = [req EXCEPT ![r] = to]
  BY <1>1 DEF CopySpecs, At, Knows, Goto
<1>3. to \in Request /\ to.pc = "copyThrough" /\ to.op = q.op /\ to.item = q.item
      /\ to.price = q.price /\ to.category = q.category /\ to.menu = q.menu /\ to.specs = q.specs
  BY <1>1 DEF Request, Labels
<1>4. req' \in [Requests -> Request] /\ req'[r] = to
  BY <1>1, <1>2, <1>3
<1>5. /\ menu' \in [Menus -> Menu]
      /\ Live(menu)' = Live(menu)
      /\ \A m \in Menus : \A s \in menu'[m].specs : \E old \in menu[m].specs :
           /\ s.template = old.template /\ s.item = old.item
           /\ IF old \in hit THEN s.copy = q.price ELSE s = old
      /\ SpecReferencesLive' /\ NamesUnique' /\ NoOrphans' /\ Refers(Rows)'
  <2> HIDE DEF hit
  <2> QED
    BY <1>2, Copies
<1>6. Knows(req[r])'
  <2>1. Live(template)' = Live(template)
    BY <1>2 DEF Live
  <2>2. Refers(q.specs) => Refers(req[r].specs)'
    BY <1>3, <1>4 DEF Refers
  <2>3. \A s \in Rows' : s.item = q.item => s.copy = q.price
    BY <1>5 DEF Rows
  <2> HIDE DEF q, to
  <2> QED
    BY <1>1, <1>2, <1>3, <1>4, <1>5, <2>1, <2>2, <2>3 DEF Knows
<1>7. TypeOK'
  BY <1>1, <1>2, <1>4, <1>5 DEF TypeOK
<1> QED
  BY <1>4, <1>5, <1>6, <1>7 DEF IInv, OneAtATime

\* Then those that offer it through a template, and a template's own menus.
LEMMA CopiesThrough ==
  ASSUME OneAtATime, IInv, NEW r \in Requests, CopyThrough(r) \/ CopyTemplatePrice(r)
  PROVE  IInv'
<1>1. TypeOK
  BY DEF IInv
<1>2. PICK hit : CopyPrice(r, hit)
  BY DEF CopyThrough, CopyTemplatePrice
<1>3. UNCHANGED <<category, group, item, template>> /\ End(r)
  BY DEF CopyThrough, CopyTemplatePrice
<1>4. req' \in [Requests -> Request] /\ Knows(req[r])'
  BY <1>1, <1>3, Rests
<1>5. menu' \in [Menus -> Menu] /\ SpecReferencesLive' /\ NamesUnique' /\ NoOrphans' /\ Refers(Rows)'
  BY <1>2, <1>3, Copies
<1>6. TypeOK'
  BY <1>1, <1>3, <1>4, <1>5 DEF TypeOK
<1> QED
  BY <1>4, <1>5, <1>6 DEF IInv, OneAtATime

\* An item goes that nothing refers to.
LEMMA DropsItem ==
  ASSUME OneAtATime, IInv, NEW r \in Requests, DropItem(r)
  PROVE  IInv'
<1> DEFINE q == req[r]
<1>1. TypeOK /\ q \in Request /\ Knows(q)
  BY DEF IInv, TypeOK
<1>2. /\ UNCHANGED <<category, group, template, menu>> /\ End(r)
      /\ q.item \in Items
      /\ \A k \in Live(template) : template[k].item # q.item
      /\ \A s \in Rows : s.item # q.item
      /\ item' = [item EXCEPT ![q.item].state = Gone(@)]
  BY <1>1 DEF DropItem, At, Knows
<1>3. req' \in [Requests -> Request] /\ Knows(req[r])'
  BY <1>1, <1>2, Rests
<1>4. item' \in [Items -> Item]
  BY <1>1, <1>2 DEF TypeOK, Item, Gone, RowState
<1>5. /\ Live(item)' = Live(item) \ {q.item}
      /\ \A j \in Items : item'[j].group = item[j].group /\ item'[j].name = item[j].name
      /\ Live(item) \subseteq Items
  BY <1>1, <1>2 DEF Live, TypeOK, Item, Gone
<1>6. TypeOK'
  BY <1>1, <1>2, <1>3, <1>4 DEF TypeOK
<1>7. SpecReferencesLive'
  <2>1. \A j \in Live(item)' : item'[j].group \in Live(group)'
    BY <1>2, <1>5 DEF IInv, SpecReferencesLive, Live
  <2>2. \A k \in Live(template)' : template'[k].item \in Live(item)'
    BY <1>2, <1>5 DEF IInv, SpecReferencesLive, Live
  <2>3. RefersToLive(Rows)'
    BY <1>2, <1>5 DEF IInv, SpecReferencesLive, RefersToLive, Rows, Live
  <2> QED
    BY <2>1, <2>2, <2>3 DEF SpecReferencesLive
<1>8. NamesUnique'
  <2>1. \A j, k \in Live(item)' : item'[j].group = item'[k].group /\ item'[j].name = item'[k].name
                                  => j = k
    BY <1>5 DEF IInv, NamesUnique
  <2> QED
    BY <1>2, <2>1 DEF IInv, NamesUnique, Live
<1>9. NoOrphans' /\ Refers(Rows)'
  BY <1>2 DEF IInv, NoOrphans, Refers, Rows
<1> QED
  BY <1>3, <1>6, <1>7, <1>8, <1>9 DEF IInv, OneAtATime

-----------------------------------------------------------------------------
(* Steps that write templates and menus. *)

\* A new template stands for an item that is there, under a name its category lacks.
LEMMA InsertsTemplate ==
  ASSUME OneAtATime, IInv, NEW r \in Requests, InsertTemplate(r)
  PROVE  IInv'
<1> DEFINE q == req[r]
           row == TemplateRow(r, "live")
<1>1. TypeOK /\ q \in Request /\ Knows(q)
  BY DEF IInv, TypeOK
<1>2. /\ UNCHANGED <<category, group, item, menu>> /\ End(r)
      /\ q.item \in Live(item) /\ TemplatesNamed(q.category, q.type, q.name) = {}
  BY <1>1 DEF InsertTemplate, At, Knows
<1>3. PICK k \in Templates : template[k].state = "none" /\ template' = [template EXCEPT ![k] = row]
  BY DEF InsertTemplate
<1>4. /\ row \in Template /\ row.state = "live" /\ row.item = q.item
      /\ row.category = q.category /\ row.type = q.type /\ row.name = q.name
  BY <1>1 DEF TemplateRow, Template, Request, RowState
<1> HIDE DEF row, q
<1>5. template' \in [Templates -> Template] /\ template'[k] = row
      /\ \A l \in Templates : l # k => template'[l] = template[l]
  BY <1>1, <1>3, <1>4 DEF TypeOK
<1>6. Live(template)' = Live(template) \cup {k} /\ k \notin Live(template)
      /\ Live(template) \subseteq Templates
  BY <1>1, <1>3, <1>4, <1>5 DEF Live, TypeOK
<1>7. req' \in [Requests -> Request] /\ Knows(req[r])'
  BY <1>1, <1>2, Rests
<1>8. TypeOK'
  BY <1>1, <1>2, <1>5, <1>7 DEF TypeOK
<1>9. SpecReferencesLive'
  <2>1. \A l \in Live(template)' : template'[l].item \in Live(item)'
    BY <1>2, <1>4, <1>5, <1>6 DEF IInv, SpecReferencesLive, Live
  <2>2. RefersToLive(Rows)'
    BY <1>2, <1>6 DEF IInv, SpecReferencesLive, RefersToLive, Rows, Live
  <2> QED
    BY <1>2, <2>1, <2>2 DEF IInv, SpecReferencesLive, Live
<1>10. NamesUnique'
  <2>1. \A l \in Live(template) : ~ (/\ template[l].category = q.category
                                     /\ template[l].type = q.type /\ template[l].name = q.name)
    BY <1>2 DEF TemplatesNamed
  <2>2. \A j, l \in Live(template)' :
          /\ template'[j].category = template'[l].category
          /\ template'[j].type = template'[l].type
          /\ template'[j].name = template'[l].name
          => j = l
    BY <1>4, <1>5, <1>6, <2>1 DEF IInv, NamesUnique
  <2> QED
    BY <1>2, <2>2 DEF IInv, NamesUnique, Live
<1>11. NoOrphans' /\ Refers(Rows)'
  BY <1>2 DEF IInv, NoOrphans, Refers, Rows
<1> QED
  BY <1>7, <1>8, <1>9, <1>10, <1>11 DEF IInv, OneAtATime

\* So does one that is replaced, which stays deleted if it was.
LEMMA WritesTemplate ==
  ASSUME OneAtATime, IInv, NEW r \in Requests, WriteTemplate(r)
  PROVE  IInv'
<1> DEFINE q == req[r]
           k == q.template
           row == TemplateRow(r, template[k].state)
           to == [q EXCEPT !.pc = "copyPrice"]
<1>1. TypeOK /\ req \in [Requests -> Request] /\ q \in Request /\ Knows(q)
  BY DEF IInv, TypeOK
<1>2. /\ UNCHANGED <<category, group, item, menu>> /\ q.pc = "writeTemplate"
      /\ k \in Templates /\ q.item \in Live(item)
      /\ TemplatesNamed(q.category, q.type, q.name) \subseteq {k}
      /\ req' = [req EXCEPT ![r] = to]
  BY <1>1 DEF WriteTemplate, At, Knows, Goto
<1>3. template' = [template EXCEPT ![k] = row]
  BY DEF WriteTemplate, TemplateRow
<1>4. template[k].state \in RowState
  BY <1>1, <1>2 DEF TypeOK, Template
<1>5. /\ row \in Template /\ row.state = template[k].state /\ row.item = q.item
      /\ row.category = q.category /\ row.type = q.type /\ row.name = q.name
  BY <1>1, <1>4 DEF TemplateRow, Template, Request
<1>6. to \in Request /\ to.pc = "copyPrice" /\ to.op = q.op /\ to.template = k
      /\ to.category = q.category /\ to.menu = q.menu /\ to.specs = q.specs
  BY <1>1 DEF Request, Labels
<1>7. req' \in [Requests -> Request] /\ req'[r] = to
  BY <1>1, <1>2, <1>6
<1> HIDE DEF row, to, k, q
<1>8. template' \in [Templates -> Template] /\ template'[k] = row
      /\ \A l \in Templates : l # k => template'[l] = template[l]
  BY <1>1, <1>2, <1>3, <1>5 DEF TypeOK
<1>9. Live(template)' = Live(template) /\ Live(template) \subseteq Templates
  BY <1>1, <1>2, <1>5, <1>8 DEF Live, TypeOK
<1>10. Knows(req[r])'
  <2>1. Live(menu)' = Live(menu)
    BY <1>2 DEF Live
  <2>2. Refers(q.specs) => Refers(req[r].specs)'
    BY <1>6, <1>7 DEF Refers
  <2> QED
    BY <1>1, <1>2, <1>6, <1>7, <2>1, <2>2 DEF Knows
<1>11. TypeOK'
  BY <1>1, <1>2, <1>7, <1>8 DEF TypeOK
<1>12. SpecReferencesLive'
  <2>1. \A l \in Live(template)' : template'[l].item \in Live(item)'
    BY <1>2, <1>5, <1>8, <1>9 DEF IInv, SpecReferencesLive, Live
  <2>2. RefersToLive(Rows)'
    BY <1>2, <1>9 DEF IInv, SpecReferencesLive, RefersToLive, Rows, Live
  <2> QED
    BY <1>2, <2>1, <2>2 DEF IInv, SpecReferencesLive, Live
<1>13. NamesUnique'
  <2>1. \A l \in Live(template) : l # k => ~ (/\ template[l].category = q.category
                                              /\ template[l].type = q.type /\ template[l].name = q.name)
    BY <1>2 DEF TemplatesNamed
  <2>2. \A j, l \in Live(template)' :
          /\ template'[j].category = template'[l].category
          /\ template'[j].type = template'[l].type
          /\ template'[j].name = template'[l].name
          => j = l
    BY <1>5, <1>8, <1>9, <2>1 DEF IInv, NamesUnique
  <2> QED
    BY <1>2, <2>2 DEF IInv, NamesUnique, Live
<1>14. NoOrphans' /\ Refers(Rows)'
  BY <1>2 DEF IInv, NoOrphans, Refers, Rows
<1> QED
  BY <1>7, <1>10, <1>11, <1>12, <1>13, <1>14 DEF IInv, OneAtATime

\* A template goes that no menu refers to.
LEMMA DropsTemplate ==
  ASSUME OneAtATime, IInv, NEW r \in Requests, DropTemplate(r)
  PROVE  IInv'
<1> DEFINE q == req[r]
<1>1. TypeOK /\ q \in Request /\ Knows(q)
  BY DEF IInv, TypeOK
<1>2. /\ UNCHANGED <<category, group, item, menu>> /\ End(r)
      /\ q.template \in Templates /\ \A s \in Rows : s.template # q.template
      /\ template' = [template EXCEPT ![q.template].state = Gone(@)]
  BY <1>1 DEF DropTemplate, At, Knows
<1>3. req' \in [Requests -> Request] /\ Knows(req[r])'
  BY <1>1, <1>2, Rests
<1>4. template' \in [Templates -> Template]
  BY <1>1, <1>2 DEF TypeOK, Template, Gone, RowState
<1>5. /\ Live(template)' = Live(template) \ {q.template}
      /\ \A k \in Templates :
           /\ template'[k].item = template[k].item /\ template'[k].name = template[k].name
           /\ template'[k].category = template[k].category /\ template'[k].type = template[k].type
      /\ Live(template) \subseteq Templates
  BY <1>1, <1>2 DEF Live, TypeOK, Template, Gone
<1>6. TypeOK'
  BY <1>1, <1>2, <1>3, <1>4 DEF TypeOK
<1>7. SpecReferencesLive'
  <2>1. \A k \in Live(template)' : template'[k].item \in Live(item)'
    BY <1>2, <1>5 DEF IInv, SpecReferencesLive, Live
  <2>2. RefersToLive(Rows)'
    BY <1>2, <1>5 DEF IInv, SpecReferencesLive, RefersToLive, Rows, Live
  <2> QED
    BY <1>2, <2>1, <2>2 DEF IInv, SpecReferencesLive, Live
<1>8. NamesUnique'
  <2>1. \A k, l \in Live(template)' :
          /\ template'[k].category = template'[l].category
          /\ template'[k].type = template'[l].type
          /\ template'[k].name = template'[l].name
          => k = l
    BY <1>5 DEF IInv, NamesUnique
  <2> QED
    BY <1>2, <2>1 DEF IInv, NamesUnique, Live
<1>9. NoOrphans' /\ Refers(Rows)'
  BY <1>2 DEF IInv, NoOrphans, Refers, Rows
<1> QED
  BY <1>3, <1>6, <1>7, <1>8, <1>9 DEF IInv, OneAtATime

\* The rows of a list that was validated refer to what is there.
LEMMA NewSpecsLive ==
  ASSUME NEW r \in Requests, req[r] \in Request, Refers(req[r].specs), RefersToLive(req[r].specs)
  PROVE  NewSpecs(r) \in SUBSET MenuSpec /\ Refers(NewSpecs(r)) /\ RefersToLive(NewSpecs(r))
<1>1. req[r].specs \subseteq Resolved
  BY DEF Request
<1>2. \A s \in Resolved : [template |-> s.template, item |-> s.item, copy |-> s.copy] \in MenuSpec
  BY DEF Resolved, MenuSpec
<1>3. NewSpecs(r) \subseteq MenuSpec
  BY <1>1, <1>2 DEF NewSpecs
<1> QED
  BY <1>3 DEF NewSpecs, Refers, RefersToLive

\* Only a menu's own row is written: it is there, and its rows refer to what is
\* there, or it goes and they with it.
LEMMA OneMenu ==
  ASSUME IInv, UNCHANGED <<category, group, item, template>>,
         NEW m \in Menus, NEW row \in Menu, menu' = [menu EXCEPT ![m] = row],
         Refers(row.specs), RefersToLive(row.specs), row.state = "deleted" => row.specs = {}
  PROVE  menu' \in [Menus -> Menu] /\ SpecReferencesLive' /\ NamesUnique' /\ NoOrphans' /\ Refers(Rows)'
<1>1. menu' \in [Menus -> Menu] /\ menu'[m] = row /\ \A n \in Menus : n # m => menu'[n] = menu[n]
  BY DEF IInv, TypeOK
<1>2. \A s \in Rows' : s \in Rows \cup row.specs
  BY <1>1 DEF Rows
<1>3. Refers(Rows)' /\ NoOrphans'
  BY <1>1, <1>2 DEF IInv, Refers, NoOrphans
<1>4. RefersToLive(Rows)'
  <2>1. Live(template)' = Live(template) /\ Live(item)' = Live(item)
    BY DEF Live
  <2>2. RefersToLive(Rows)
    BY DEF IInv, SpecReferencesLive
  <2>3. \A s \in Rows' : /\ s.template # Null => s.template \in Live(template)
                         /\ s.item # Null => s.item \in Live(item)
    BY <1>2, <2>2 DEF RefersToLive
  <2> QED
    BY <2>1, <2>3 DEF RefersToLive
<1>5. SpecReferencesLive'
  BY <1>4 DEF IInv, SpecReferencesLive, Live
<1>6. NamesUnique'
  BY DEF IInv, NamesUnique, Live
<1> QED
  BY <1>1, <1>3, <1>5, <1>6

\* Creating a menu, replacing its specifications and deleting it with them.
LEMMA WritesMenu ==
  ASSUME OneAtATime, IInv, NEW r \in Requests,
         InsertMenu(r) \/ LockMenu(r) \/ CommitMenu(r) \/ DropMenu(r)
  PROVE  IInv'
<1> DEFINE q == req[r]
           m == q.menu
<1>1. TypeOK /\ req \in [Requests -> Request] /\ q \in Request /\ Knows(q)
  BY DEF IInv, TypeOK
<1>2. UNCHANGED <<category, group, item, template>>
  BY DEF InsertMenu, LockMenu, CommitMenu, DropMenu
<1>3. ASSUME NEW n \in Menus, NEW row \in Menu, menu' = [menu EXCEPT ![n] = row],
             Refers(row.specs), RefersToLive(row.specs), row.state = "deleted" => row.specs = {},
             End(r)
      PROVE  IInv'
  <2>1. req' \in [Requests -> Request] /\ Knows(req[r])'
    BY <1>1, <1>3, Rests
  <2>2. menu' \in [Menus -> Menu] /\ SpecReferencesLive' /\ NamesUnique' /\ NoOrphans' /\ Refers(Rows)'
    BY <1>2, <1>3, OneMenu
  <2>3. TypeOK'
    BY <1>1, <1>2, <2>1, <2>2 DEF TypeOK
  <2> QED
    BY <2>1, <2>2, <2>3 DEF IInv, OneAtATime
<1>4. ASSUME NEW n \in Menus
      PROVE  menu[n] \in Menu /\ Refers(menu[n].specs) /\ RefersToLive(menu[n].specs)
  <2>1. menu[n].specs \subseteq Rows /\ menu[n] \in Menu
    BY <1>1 DEF Rows, TypeOK
  <2>2. Refers(Rows) /\ RefersToLive(Rows)
    BY DEF IInv, SpecReferencesLive
  <2> QED
    BY <2>1, <2>2 DEF Refers, RefersToLive
<1>5. Unseen(r, m) => End(r)
  BY <1>1 DEF Unseen, End, OneAtATime
<1> HIDE DEF m, q
<1>6. CASE InsertMenu(r)
  <2>1. PICK n \in Menus : menu' = [menu EXCEPT ![n] =
          [state |-> "live", category |-> q.category, specs |-> NewSpecs(r)]]
    BY <1>6 DEF InsertMenu, q
  <2> DEFINE row == [state |-> "live", category |-> q.category, specs |-> NewSpecs(r)]
  <2>2. Refers(q.specs) /\ RefersToLive(q.specs) /\ End(r)
    BY <1>1, <1>6 DEF InsertMenu, At, Knows, q
  <2>3. NewSpecs(r) \in SUBSET MenuSpec /\ Refers(NewSpecs(r)) /\ RefersToLive(NewSpecs(r))
    BY <1>1, <2>2, NewSpecsLive DEF q
  <2>4. row \in Menu /\ row.state = "live" /\ row.specs = NewSpecs(r)
    BY <1>1, <2>3 DEF Menu, RowState, Request
  <2> HIDE DEF row
  <2> QED
    BY <1>3, <2>1, <2>2, <2>3, <2>4 DEF row
<1>7. CASE LockMenu(r)
  <2>1. q.op = "UpdateMenu" /\ m \in Live(menu) /\ q.pc = "lockMenu"
    BY <1>1, <1>7 DEF LockMenu, At, Knows, q, m
  <2>2. m \in Menus /\ menu[m].state = "live"
    BY <1>1, <2>1 DEF Live, TypeOK
  <2>3. CASE Goto(r, "validate") /\ UNCHANGED menu
    <3>1. Knows([req[r] EXCEPT !.pc = "validate"])
      <4> DEFINE at == [req[r] EXCEPT !.pc = "validate"]
      <4>1. at.pc = "validate" /\ at.op = q.op /\ at.category = q.category
            /\ at.menu = q.menu /\ at.specs = q.specs
        BY <1>1 DEF Request, q
      <4> HIDE DEF at
      <4>2. Knows(at)
        BY <1>1, <2>1, <4>1 DEF Knows
      <4> QED
        BY <4>2 DEF at
    <3> QED
      BY <1>2, <2>3, <3>1, Goes DEF tables, Labels
  <2>4. CASE End(r) /\ menu' = [menu EXCEPT ![m].category = q.category]
    <3> DEFINE row == [menu[m] EXCEPT !.category = q.category]
    <3>1. menu' = [menu EXCEPT ![m] = row]
      BY <1>1, <2>2, <2>4 DEF TypeOK
    <3>2. row \in Menu /\ row.state = "live" /\ row.specs = menu[m].specs
      BY <1>1, <1>4, <2>2 DEF Menu, Request
    <3> HIDE DEF row
    <3> QED
      BY <1>3, <1>4, <2>2, <2>4, <3>1, <3>2
  <2> QED
    BY <1>7, <2>3, <2>4 DEF LockMenu, q, m
<1>8. CASE CommitMenu(r)
  <2> DEFINE row == [menu[m] EXCEPT !.category = q.category, !.specs = NewSpecs(r)]
  <2>1. m \in Live(menu) /\ Refers(q.specs) /\ RefersToLive(q.specs) /\ End(r)
    BY <1>1, <1>5, <1>8 DEF CommitMenu, At, Knows, q, m
  <2>2. m \in Menus /\ menu[m].state = "live"
    BY <1>1, <2>1 DEF Live, TypeOK
  <2>3. NewSpecs(r) \in SUBSET MenuSpec /\ Refers(NewSpecs(r)) /\ RefersToLive(NewSpecs(r))
    BY <1>1, <2>1, NewSpecsLive DEF q
  <2>4. menu' = [menu EXCEPT ![m] = row]
    BY <1>1, <1>8, <2>2 DEF CommitMenu, TypeOK, q, m
  <2>5. row \in Menu /\ row.state = "live" /\ row.specs = NewSpecs(r)
    BY <1>1, <1>4, <2>2, <2>3 DEF Menu, Request
  <2> HIDE DEF row
  <2> QED
    BY <1>3, <2>1, <2>2, <2>3, <2>4, <2>5
<1>9. CASE DropMenu(r)
  <2>1. m \in Menus /\ q.sees
    BY <1>1, <1>9 DEF DropMenu, At, Knows, q, m
  <2>2. CASE m \in Live(menu)
    <3> DEFINE row == [menu[m] EXCEPT !.state = "deleted", !.specs = {}]
    <3>1. menu' = [menu EXCEPT ![m] = row] /\ End(r)
      BY <1>1, <1>5, <1>9, <2>1, <2>2 DEF DropMenu, TypeOK, q, m
    <3>2. row \in Menu /\ row.specs = {}
      BY <1>4, <2>1 DEF Menu, RowState
    <3>3. Refers(row.specs) /\ RefersToLive(row.specs)
      BY <3>2 DEF Refers, RefersToLive
    <3> HIDE DEF row
    <3> QED
      BY <1>3, <2>1, <3>1, <3>2, <3>3
  <2>3. CASE m \notin Live(menu)
    <3>1. End(r) /\ UNCHANGED tables
      BY <1>2, <1>9, <2>3 DEF DropMenu, tables, q, m
    <3> QED
      BY <3>1, Ends
  <2> QED
    BY <2>2, <2>3
<1> QED
  BY <1>6, <1>7, <1>8, <1>9

-----------------------------------------------------------------------------
(* The theorems. *)

\* Every step of one request at a time stays within the invariant.
LEMMA Preserves ==
  ASSUME OneAtATime, IInv, [Next]_vars
  PROVE  IInv'
<1>1. CASE UNCHANGED vars
  <2>1. ASSUME NEW q \in Requests PROVE Knows(req[q])'
    BY <1>1 DEF IInv, Knows, GroupsNamed, ItemsNamed, TemplatesNamed, Refers, RefersToLive, Rows,
                Live, Ensures, vars
  <2>2. TypeOK' /\ SpecReferencesLive' /\ NamesUnique' /\ NoOrphans' /\ Refers(Rows)'
    BY <1>1 DEF IInv, TypeOK, SpecReferencesLive, NamesUnique, NoOrphans, Refers, RefersToLive, Rows,
                Live, vars
  <2> QED
    BY <2>1, <2>2 DEF IInv
<1>2. ASSUME NEW r \in Requests, CallSpecs(r) \/ CallMenus(r) PROVE IInv'
  BY <1>2, SpecCalls, MenuCalls
<1>3. ASSUME NEW r \in Requests, SpecStep(r) PROVE IInv'
  BY <1>3, InsertsGroup, WritesGroup, DropsGroup, InsertsItem, WritesItem, CopiesTemplates,
     CopiesSpecs, CopiesThrough, DropsItem, InsertsTemplate, WritesTemplate, DropsTemplate, Looks
     DEF SpecStep
<1>4. ASSUME NEW r \in Requests, MenuStep(r) PROVE IInv'
  BY <1>4, Resolves, Looks, WritesMenu DEF MenuStep
<1>5. ASSUME NEW r \in Requests, Fail(r) PROVE IInv'
  BY <1>5, Looks
<1> QED
  BY <1>1, <1>2, <1>3, <1>4, <1>5 DEF Next

\* Calls that do not overlap keep the catalogue's invariant, whatever fails.
THEOREM CatalogInvariant == ASSUME OneAtATime PROVE Spec => []IInv
<1>1. Init => IInv
  <2> SUFFICES ASSUME Init PROVE IInv
    OBVIOUS
  <2>1. TypeOK
    BY IdleKnows DEF Init, TypeOK, RowState, Group, Item, Template, Menu, OrNull
  <2>2. Rows = {} /\ Live(item) = {} /\ Live(group) = {} /\ Live(template) = {}
    BY DEF Init, Rows, Live
  <2>3. SpecReferencesLive /\ NamesUnique /\ Refers(Rows)
    BY <2>2 DEF SpecReferencesLive, NamesUnique, Refers, RefersToLive
  <2>4. NoOrphans
    BY DEF Init, NoOrphans
  <2>5. \A r \in Requests : Knows(req[r])
    BY IdleKnows DEF Init
  <2> QED
    BY <2>1, <2>3, <2>4, <2>5 DEF IInv
<1>2. IInv /\ [Next]_vars => IInv'
  BY Preserves
<1> QED
  BY <1>1, <1>2, PTL DEF Spec

\* The group of an item, the item of a template and what a specification of a menu
\* stands for are there, whatever calls came before and where they failed.
THEOREM StaysLive == ASSUME OneAtATime PROVE Spec => []SpecReferencesLive
<1>1. IInv => SpecReferencesLive
  BY DEF IInv
<1> QED
  BY <1>1, CatalogInvariant, PTL

\* No two groups, items of a group or templates of a category have one name.
THEOREM StaysUnique == ASSUME OneAtATime PROVE Spec => []NamesUnique
<1>1. IInv => NamesUnique
  BY DEF IInv
<1> QED
  BY <1>1, CatalogInvariant, PTL

\* However an update of prices fails, an order pays the price of the item.
THEOREM PaysCurrentPrice == ASSUME OneAtATime PROVE Spec => []PricesAreCurrent
<1>1. IInv => PricesAreCurrent
  <2> SUFFICES ASSUME IInv, NEW s \in Rows PROVE PriceOf(s) = item[ItemOf(s)].price
    BY DEF PricesAreCurrent
  <2>1. s.template # Null \/ s.item # Null
    BY DEF IInv, Refers
  <2>2. /\ s.template # Null => s.template \in Live(template)
        /\ s.item # Null => s.item \in Live(item)
    BY DEF IInv, SpecReferencesLive, RefersToLive
  <2>3. Null \notin Live(template) /\ Null \notin Live(item)
    BY CatalogAssumption DEF IInv, TypeOK, Live
  <2>4. \A k \in Live(template) : template[k].item \in Live(item)
    BY DEF IInv, SpecReferencesLive
  <2> QED
    BY <2>1, <2>2, <2>3, <2>4 DEF PriceOf, TemplatePrice, ItemOf
<1> QED
  BY <1>1, CatalogInvariant, PTL

\* An update that goes through repairs every copy of the item's price.
THEOREM RepairsCopies == ASSUME OneAtATime PROVE Spec => UpdateRepairs
<1> DEFINE Repairs(r) ==
      At(r, "copyThrough") /\ CopyThrough(r) =>
        LET i == req[r].item IN
        /\ \A k \in Live(template)' : template'[k].item = i => template'[k].price = item'[i].price
        /\ \A m \in Menus : \A s \in menu'[m].specs :
             ItemOf(s)' = i => s.copy = item'[i].price
<1>1. ASSUME IInv, NEW r \in Requests PROVE Repairs(r)
  <2> SUFFICES ASSUME At(r, "copyThrough"), CopyThrough(r)
               PROVE  LET i == req[r].item IN
                      /\ \A k \in Live(template)' :
                           template'[k].item = i => template'[k].price = item'[i].price
                      /\ \A m \in Menus : \A s \in menu'[m].specs :
                           ItemOf(s)' = i => s.copy = item'[i].price
    OBVIOUS
  <2> DEFINE q == req[r]
             hit == {s \in Rows : s.template # Null /\ template[s.template].item = q.item}
  <2>1. /\ item[q.item].price = q.price
        /\ \A k \in Live(template) : template[k].item = q.item => template[k].price = q.price
        /\ \A s \in Rows : s.item = q.item => s.copy = q.price
    BY <1>1 DEF IInv, Knows, At
  <2>2. UNCHANGED <<category, group, item, template>> /\ CopyPrice(r, hit)
    BY DEF CopyThrough
  <2>3. \A m \in Menus : \A s \in menu'[m].specs : \E old \in menu[m].specs :
          /\ s.template = old.template /\ s.item = old.item
          /\ IF old \in hit THEN s.copy = q.price ELSE s = old
    <3> HIDE DEF hit
    <3> QED
      BY <1>1, <2>2, Copies
  <2>4. \A k \in Live(template)' : template'[k].item = q.item => template'[k].price = item'[q.item].price
    BY <2>1, <2>2 DEF Live
  <2>5. ASSUME NEW m \in Menus, NEW s \in menu'[m].specs, ItemOf(s)' = q.item
        PROVE  s.copy = item'[q.item].price
    <3>1. PICK old \in menu[m].specs :
            /\ s.template = old.template /\ s.item = old.item
            /\ IF old \in hit THEN s.copy = q.price ELSE s = old
      BY <2>3
    <3>2. old \in Rows
      BY DEF Rows
    <3>3. ItemOf(old) = q.item
      BY <2>2, <2>5, <3>1 DEF ItemOf
    <3> QED
      BY <2>1, <2>2, <3>1, <3>2, <3>3 DEF ItemOf
  <2> QED
    BY <2>4, <2>5
<1>2. IInv /\ [Next]_vars => [\A r \in Requests : Repairs(r)]_vars
  BY <1>1
<1> QED
  BY <1>2, CatalogInvariant, PTL DEF Spec, UpdateRepairs

=============================================================================
