------------------------------ MODULE Catalog ------------------------------
(***************************************************************************)
(* Specifications of dishes and what they cost.                            *)
(*                                                                         *)
(* A specification item (`large`) belongs to a group (`size`) and has a    *)
(* price.  A category offers items as templates; a menu offers items,      *)
(* directly or through a template of its category.  Templates and menus    *)
(* keep copies of the price, an order is priced by following the           *)
(* references, and a copy counts only where a reference leads nowhere.     *)
(*                                                                         *)
(* No index keeps names unique and no foreign key keeps a referenced row:  *)
(* deleting marks a row, reads skip marked rows, UPDATE does not.  The     *)
(* handlers look first and write afterwards, one statement after another,  *)
(* mostly outside a transaction; each step here is one of these            *)
(* statements, and a request may fail before any of them.                  *)
(*                                                                         *)
(* Only Menu.Create, Update and Delete are transactions.  Their row locks  *)
(* are derived from where the requests are: see Holds and HoldsSpecs.      *)
(***************************************************************************)
EXTENDS Integers, Sequences, FiniteSets

CONSTANTS
  Requests,    \* requests in flight at the same time
  Ops,         \* the endpoints that are called
  Categories, Groups, Items, Templates, Menus,
  Types,       \* names of groups
  Names,       \* names of items
  Prices,
  Lists,       \* the lists of specifications clients submit with a menu
  Null         \* no row, no name

\* What a client may write for one specification of a menu.
Wish == [template : Templates \cup {Null}, item : Items \cup {Null},
         type : Types \cup {Null}, name : Names \cup {Null},
         price : Int, custom : BOOLEAN]

ASSUME CatalogAssumption ==
  /\ Null \notin Categories \cup Groups \cup Items \cup Templates \cup Menus \cup Types \cup Names
  /\ Prices \subseteq Int
  /\ \A list \in Lists : list \in Seq(Wish)

VARIABLES
  category,   \* menu_categories: whether the row is there
  group,      \* spec_groups
  item,       \* spec_items
  template,   \* category_specs
  menu,       \* menus, each with its menu_specs
  req         \* local state of each request

tables == <<category, group, item, template, menu>>
vars == <<category, group, item, template, menu, req>>

-----------------------------------------------------------------------------
(* Rows. *)

RowState == {"none", "live", "deleted"}

\* DELETE marks a row that is there, and finds none otherwise.
Gone(state) == IF state = "live" THEN "deleted" ELSE state

OrNull(S) == S \cup {Null}

Group == [state : RowState, type : OrNull(Types)]
Item == [state : RowState, group : OrNull(Groups), name : OrNull(Names), price : Int]
Template == [state : RowState, category : OrNull(Categories), item : OrNull(Items),
             type : OrNull(Types), name : OrNull(Names), price : Int]

\* A menu_specs row; `copy` is its price_delta.
MenuSpec == [template : OrNull(Templates), item : OrNull(Items), copy : Int]

Menu == [state : RowState, category : OrNull(Categories), specs : SUBSET MenuSpec]

Live(table) == {x \in DOMAIN table : table[x].state = "live"}

\* Ids a client can have heard of.
Known(table) == {x \in DOMAIN table : table[x].state # "none"}

GroupsNamed(t) == {g \in Live(group) : group[g].type = t}
ItemsNamed(g, n) == {i \in Live(item) : item[i].group = g /\ item[i].name = n}
TemplatesNamed(c, t, n) ==
  {k \in Live(template) : /\ template[k].category = c
                          /\ template[k].type = t
                          /\ template[k].name = n}

Rows == UNION {menu[m].specs : m \in Menus}   \* menu_specs that are not deleted

-----------------------------------------------------------------------------
(* Prices. *)

\* What a template adds to the price: its item's price, else its own.
TemplatePrice(k) ==
  IF template[k].item \in Live(item) THEN item[template[k].item].price
                                     ELSE template[k].price

\* Fault: the copy kept with the menu is taken for the price.
CopiedPrice(s) == s.copy

\* What one specification of a menu adds to the price.
PriceOf(s) ==
  IF s.template \in Live(template) THEN TemplatePrice(s.template)
  ELSE IF s.item \in Live(item) THEN item[s.item].price ELSE s.copy

-----------------------------------------------------------------------------
(* Requests. *)

Labels == {"idle", "insertGroup", "writeGroup", "dropGroup",
           "insertItem", "writeItem", "copyTemplates", "copySpecs", "copyThrough",
           "countSpecs", "dropItem",
           "findGroup", "findItem",
           "checkTemplate", "insertTemplate", "writeTemplate", "copyPrice", "dropTemplate",
           "nextSpec", "validate", "insertMenu", "lockMenu", "replaceSpecs", "commitMenu",
           "deleteSpecs", "dropMenu"}

Endpoints == {"CreateSpecGroup", "UpdateSpecGroup", "DeleteSpecGroup",
              "CreateSpecItem", "UpdateSpecItem", "DeleteSpecItem",
              "CreateCategorySpec", "UpdateCategorySpec", "DeleteCategorySpec",
              "CreateMenu", "UpdateMenu", "DeleteMenu",
              "CreateMenuCategory", "DeleteMenuCategory"}

\* One of a list of specifications, resolved: its row and the names it goes by.
Resolved == [template : OrNull(Templates), item : OrNull(Items), copy : Int,
             type : OrNull(Types), name : OrNull(Names)]

\* The list with one more, unless it repeats a name, a template or a plain item.
Listed(specs, s) ==
  IF \E t \in specs : \/ <<s.type, s.name>> # <<Null, Null>> /\ t.type = s.type /\ t.name = s.name
                      \/ s.template # Null /\ t.template = s.template
                      \/ s.template = Null /\ t.template = Null /\ t.item = s.item
  THEN specs ELSE specs \cup {s}

Idle == [pc |-> "idle", op |-> "none",
         category |-> Null, group |-> Null, item |-> Null, template |-> Null, menu |-> Null,
         type |-> Null, name |-> Null, price |-> 0,
         todo |-> << >>, specs |-> {},   \* a menu's specifications: to resolve, resolved
         replaces |-> FALSE,             \* the request has a list of specifications
         sees |-> FALSE]                 \* the rows DeleteMenu's first statement saw are there

At(r, label) == req[r].pc = label
Goto(r, label) == req' = [req EXCEPT ![r].pc = label]
End(r) == req' = [req EXCEPT ![r] = Idle]

\* A call of op that passes its first checks goes on with `local`.
Start(r, op, local) ==
  /\ At(r, "idle")
  /\ op \in Ops
  /\ req' = [req EXCEPT ![r] = [local EXCEPT !.op = op]]
  /\ UNCHANGED tables

-----------------------------------------------------------------------------
(* Groups. *)

CreateSpecGroup(r, t) ==
  /\ GroupsNamed(t) = {}
  /\ Start(r, "CreateSpecGroup", [Idle EXCEPT !.pc = "insertGroup", !.type = t])

\* Also the group ensureGlobalSpecItem did not find, which then looks for its item.
InsertGroup(r) ==
  /\ At(r, "insertGroup")
  /\ \E g \in Groups :
       /\ group[g].state = "none"
       /\ group' = [group EXCEPT ![g] = [state |-> "live", type |-> req[r].type]]
       /\ IF req[r].op = "CreateSpecGroup" THEN End(r)
          ELSE req' = [req EXCEPT ![r].pc = "findItem", ![r].group = g]
  /\ UNCHANGED <<category, item, template, menu>>

UpdateSpecGroup(r, g, t) ==
  /\ GroupsNamed(t) \subseteq {g}
  /\ g \in Known(group)
  /\ Start(r, "UpdateSpecGroup", [Idle EXCEPT !.pc = "writeGroup", !.group = g, !.type = t])

WriteGroup(r) ==
  /\ At(r, "writeGroup")
  /\ group' = [group EXCEPT ![req[r].group].type = req[r].type]
  /\ End(r)
  /\ UNCHANGED <<category, item, template, menu>>

DeleteSpecGroup(r, g) ==
  /\ g \in Known(group)
  /\ \A i \in Live(item) : item[i].group # g
  /\ Start(r, "DeleteSpecGroup", [Idle EXCEPT !.pc = "dropGroup", !.group = g])

DropGroup(r) ==
  /\ At(r, "dropGroup")
  /\ group' = [group EXCEPT ![req[r].group].state = Gone(@)]
  /\ End(r)
  /\ UNCHANGED <<category, item, template, menu>>

-----------------------------------------------------------------------------
(* Items. *)

CreateSpecItem(r, g, n, p) ==
  /\ g \in Live(group)
  /\ ItemsNamed(g, n) = {}
  /\ Start(r, "CreateSpecItem",
           [Idle EXCEPT !.pc = "insertItem", !.group = g, !.name = n, !.price = p])

\* The item is there: the template gets it, or the menu's next specification.
GotItem(r, i) ==
  req' = IF req[r].op \in {"CreateCategorySpec", "UpdateCategorySpec"}
         THEN [req EXCEPT ![r].pc = "checkTemplate", ![r].item = i]
         ELSE [req EXCEPT ![r].pc = "nextSpec", ![r].todo = Tail(@),
                 ![r].specs = Listed(@, [template |-> Null, item |-> i, copy |-> req[r].price,
                                         type |-> req[r].type, name |-> req[r].name])]

InsertItem(r) ==
  /\ At(r, "insertItem")
  /\ \E i \in Items :
       /\ item[i].state = "none"
       /\ item' = [item EXCEPT ![i] = [state |-> "live", group |-> req[r].group,
                                      name |-> req[r].name, price |-> req[r].price]]
       /\ IF req[r].op = "CreateSpecItem" THEN End(r) ELSE GotItem(r, i)
  /\ UNCHANGED <<category, group, template, menu>>

\* Fault: a renamed item may take a name that is taken.
RenameUnchecked(r, i, g, n, p) ==
  /\ g \in Live(group)
  /\ i \in Known(item)
  /\ Start(r, "UpdateSpecItem",
           [Idle EXCEPT !.pc = "writeItem", !.item = i, !.group = g, !.name = n, !.price = p])

\* The item may be one that has been deleted: UPDATE does not skip it.
UpdateSpecItem(r, i, g, n, p) ==
  /\ g \in Live(group)
  /\ ItemsNamed(g, n) \subseteq {i}
  /\ i \in Known(item)
  /\ Start(r, "UpdateSpecItem",
           [Idle EXCEPT !.pc = "writeItem", !.item = i, !.group = g, !.name = n, !.price = p])

WriteItem(r) ==
  /\ At(r, "writeItem")
  /\ item' = [item EXCEPT ![req[r].item].group = req[r].group,
                          ![req[r].item].name = req[r].name,
                          ![req[r].item].price = req[r].price]
  /\ Goto(r, "copyTemplates")
  /\ UNCHANGED <<category, group, template, menu>>

\* Templates of the item get its price, those that have been deleted too.
CopyTemplates(r) ==
  /\ At(r, "copyTemplates")
  /\ template' = [k \in Templates |->
       IF template[k].state # "none" /\ template[k].item = req[r].item
       THEN [template[k] EXCEPT !.price = req[r].price] ELSE template[k]]
  /\ Goto(r, "copySpecs")
  /\ UNCHANGED <<category, group, item, menu>>

\* The rows of menus among `hit` get the request's price.
CopyPrice(r, hit) ==
  menu' = [m \in Menus |->
    [menu[m] EXCEPT !.specs =
       {IF s \in hit THEN [s EXCEPT !.copy = req[r].price] ELSE s : s \in @}]]

\* Fault: only templates and what is offered through them get the price.
SkipSpecs(r) ==
  /\ At(r, "copySpecs")
  /\ Goto(r, "copyThrough")
  /\ UNCHANGED tables

CopySpecs(r) ==
  /\ At(r, "copySpecs")
  /\ CopyPrice(r, {s \in Rows : s.item = req[r].item})
  /\ Goto(r, "copyThrough")
  /\ UNCHANGED <<category, group, item, template>>

CopyThrough(r) ==
  /\ At(r, "copyThrough")
  /\ CopyPrice(r, {s \in Rows : /\ s.template # Null
                                /\ template[s.template].item = req[r].item})
  /\ End(r)
  /\ UNCHANGED <<category, group, item, template>>

DeleteSpecItem(r, i) ==
  /\ i \in Known(item)
  /\ \A k \in Live(template) : template[k].item # i
  /\ Start(r, "DeleteSpecItem", [Idle EXCEPT !.pc = "countSpecs", !.item = i])

\* Fault: only templates count as references.
CountNothing(r) ==
  /\ At(r, "countSpecs")
  /\ Goto(r, "dropItem")
  /\ UNCHANGED tables

CountSpecs(r) ==
  /\ At(r, "countSpecs")
  /\ IF \E s \in Rows : s.item = req[r].item THEN End(r) ELSE Goto(r, "dropItem")
  /\ UNCHANGED tables

DropItem(r) ==
  /\ At(r, "dropItem")
  /\ item' = [item EXCEPT ![req[r].item].state = Gone(@)]
  /\ End(r)
  /\ UNCHANGED <<category, group, template, menu>>

-----------------------------------------------------------------------------
(* ensureGlobalSpecItem: the item of a name in the group of a name, found or
   created.  Two rows of one name are an error, as any failing query is.      *)

FindGroup(r) ==
  /\ At(r, "findGroup")
  /\ \/ GroupsNamed(req[r].type) = {} /\ Goto(r, "insertGroup")
     \/ \E g \in Groups :
          /\ GroupsNamed(req[r].type) = {g}
          /\ req' = [req EXCEPT ![r].pc = "findItem", ![r].group = g]
  /\ UNCHANGED tables

FindItem(r) ==
  /\ At(r, "findItem")
  /\ \/ ItemsNamed(req[r].group, req[r].name) = {} /\ Goto(r, "insertItem")
     \/ \E i \in Items : ItemsNamed(req[r].group, req[r].name) = {i} /\ GotItem(r, i)
  /\ UNCHANGED tables

-----------------------------------------------------------------------------
(* Templates.  CreateCategorySpec and UpdateCategorySpec are one handler but
   for the row they write: k is the one an update replaces, or Null.          *)

TemplateOp(k) == IF k = Null THEN "CreateCategorySpec" ELSE "UpdateCategorySpec"

\* The template is for an item the client names by its id.
TemplateOfItem(r, k, c, i, p) ==
  /\ c \in Live(category)
  /\ i \in Live(item)
  /\ item[i].group \in Live(group)
  /\ Start(r, TemplateOp(k),
           [Idle EXCEPT !.pc = "checkTemplate", !.template = k, !.category = c, !.item = i,
                        !.type = group[item[i].group].type, !.name = item[i].name,
                        !.price = p])

TemplateOfName(r, k, c, t, n, p) ==
  /\ c \in Live(category)
  /\ Start(r, TemplateOp(k),
           [Idle EXCEPT !.pc = "findGroup", !.template = k, !.category = c,
                        !.type = t, !.name = n, !.price = p])

CheckTemplate(r) ==
  /\ At(r, "checkTemplate")
  /\ IF TemplatesNamed(req[r].category, req[r].type, req[r].name) \subseteq {req[r].template}
     THEN Goto(r, IF req[r].template = Null THEN "insertTemplate" ELSE "writeTemplate")
     ELSE End(r)
  /\ UNCHANGED tables

\* The row request r asks for.
TemplateRow(r, state) ==
  [state |-> state, category |-> req[r].category, item |-> req[r].item,
   type |-> req[r].type, name |-> req[r].name, price |-> req[r].price]

InsertTemplate(r) ==
  /\ At(r, "insertTemplate")
  /\ \E k \in Templates : /\ template[k].state = "none"
                          /\ template' = [template EXCEPT ![k] = TemplateRow(r, "live")]
  /\ End(r)
  /\ UNCHANGED <<category, group, item, menu>>

\* The template may be one that has been deleted: UPDATE does not skip it.
WriteTemplate(r) ==
  /\ At(r, "writeTemplate")
  /\ template' = [template EXCEPT ![req[r].template] = TemplateRow(r, @.state)]
  /\ Goto(r, "copyPrice")
  /\ UNCHANGED <<category, group, item, menu>>

CopyTemplatePrice(r) ==
  /\ At(r, "copyPrice")
  /\ CopyPrice(r, {s \in Rows : s.template = req[r].template})
  /\ End(r)
  /\ UNCHANGED <<category, group, item, template>>

DeleteCategorySpec(r, k) ==
  /\ k \in Known(template)
  /\ \A s \in Rows : s.template # k
  /\ Start(r, "DeleteCategorySpec", [Idle EXCEPT !.pc = "dropTemplate", !.template = k])

DropTemplate(r) ==
  /\ At(r, "dropTemplate")
  /\ template' = [template EXCEPT ![req[r].template].state = Gone(@)]
  /\ End(r)
  /\ UNCHANGED <<category, group, item, menu>>

-----------------------------------------------------------------------------
(* Menus. *)

CreateMenu(r, c, list) ==
  /\ c \in Live(category)
  /\ Start(r, "CreateMenu",
           [Idle EXCEPT !.pc = "nextSpec", !.category = c, !.todo = list, !.replaces = TRUE])

\* Without a list of specifications the menu keeps those it has.
UpdateMenu(r, m, c, list, replaces) ==
  /\ m \in Live(menu)
  /\ c \in Live(category)
  /\ Start(r, "UpdateMenu",
           [Idle EXCEPT !.pc = IF replaces THEN "nextSpec" ELSE "lockMenu", !.menu = m,
                        !.category = c, !.todo = list, !.replaces = replaces])

\* The templates of the category that a wish without ids is taken for.
Matching(r, wish) ==
  IF wish.custom THEN {} ELSE TemplatesNamed(req[r].category, wish.type, wish.name)

\* resolveMenuSpecs, one specification of the list.
NextSpec(r) ==
  /\ At(r, "nextSpec")
  /\ req[r].todo # << >>
  /\ LET wish == Head(req[r].todo)
         take(s) == req' = [req EXCEPT ![r].todo = Tail(@), ![r].specs = Listed(@, s)]
     IN  IF wish.template # Null \/ wish.item # Null
         THEN take([template |-> wish.template, item |-> wish.item, copy |-> wish.price,
                    type |-> wish.type, name |-> wish.name])
         ELSE IF Cardinality(Matching(r, wish)) = 1
         THEN \E k \in Matching(r, wish) :
                take([template |-> k, item |-> Null,
                      copy |-> IF wish.price = 0 THEN template[k].price ELSE wish.price,
                      type |-> wish.type, name |-> wish.name])
         ELSE /\ wish.type # Null /\ wish.name # Null
              /\ req' = [req EXCEPT ![r].pc = "findGroup", ![r].type = wish.type,
                                    ![r].name = wish.name, ![r].price = wish.price]
  /\ UNCHANGED tables

SpecsResolved(r) ==
  /\ At(r, "nextSpec")
  /\ req[r].todo = << >>
  /\ Goto(r, IF req[r].menu = Null THEN "validate" ELSE "lockMenu")
  /\ UNCHANGED tables

\* validateSpecs reads outside the transaction.
Valid(r) ==
  \A s \in req[r].specs :
     /\ s.template # Null => /\ s.template \in Live(template)
                             /\ template[s.template].category = req[r].category
     /\ s.item # Null => s.item \in Live(item)

Validate(r) ==
  /\ At(r, "validate")
  /\ IF Valid(r) THEN Goto(r, IF req[r].menu = Null THEN "insertMenu" ELSE "replaceSpecs")
                  ELSE End(r)
  /\ UNCHANGED tables

\* The rows of the request's list.
NewSpecs(r) == {[template |-> s.template, item |-> s.item, copy |-> s.copy] : s \in req[r].specs}

\* Menu.Create from its first INSERT to its COMMIT: nobody sees any of it before.
InsertMenu(r) ==
  /\ At(r, "insertMenu")
  /\ \E m \in Menus :
       /\ menu[m].state = "none"
       /\ menu' = [menu EXCEPT ![m] = [state |-> "live", category |-> req[r].category,
                                      specs |-> NewSpecs(r)]]
  /\ End(r)
  /\ UNCHANGED <<category, group, item, template>>

\* Requests whose transaction holds the row of m, and the rows of its specifications.
Holds(m) == {r \in Requests : /\ req[r].menu = m
                              /\ req[r].op = "UpdateMenu"
                              /\ req[r].pc \in {"validate", "replaceSpecs", "commitMenu"}}
HoldsSpecs(m) == {r \in Requests : /\ req[r].menu = m /\ menu[m].specs # {}
                                   /\ \/ req[r].pc = "commitMenu"
                                      \/ req[r].pc = "dropMenu" /\ req[r].sees}

\* Menu.Update: the row is updated, even if the menu has been deleted since.
\* Without a list of specifications that is all, and the request commits.
LockMenu(r) ==
  /\ At(r, "lockMenu")
  /\ Holds(req[r].menu) = {}
  /\ IF req[r].replaces
     THEN Goto(r, "validate") /\ UNCHANGED menu
     ELSE End(r) /\ menu' = [menu EXCEPT ![req[r].menu].category = req[r].category]
  /\ UNCHANGED <<category, group, item, template>>

ReplaceSpecs(r) ==
  /\ At(r, "replaceSpecs")
  /\ HoldsSpecs(req[r].menu) = {}
  /\ Goto(r, "commitMenu")
  /\ UNCHANGED tables

\* Requests but r that look at the rows of m no longer find those they saw.
Unseen(r, m) ==
  req' = [q \in Requests |-> IF q = r THEN Idle
                             ELSE IF req[q].menu = m THEN [req[q] EXCEPT !.sees = FALSE]
                             ELSE req[q]]

CommitMenu(r) ==
  /\ At(r, "commitMenu")
  /\ menu' = [menu EXCEPT ![req[r].menu].category = req[r].category,
                          ![req[r].menu].specs = NewSpecs(r)]
  /\ Unseen(r, req[r].menu)
  /\ UNCHANGED <<category, group, item, template>>

\* Menu.Delete: its first statement sees the rows committed when it starts.
DeleteMenu(r, m) ==
  /\ m \in Known(menu)
  /\ Start(r, "DeleteMenu", [Idle EXCEPT !.pc = "deleteSpecs", !.menu = m, !.sees = TRUE])

\* It waits for a transaction that is deleting them, and deletes those still there.
DeleteSpecs(r) ==
  /\ At(r, "deleteSpecs")
  /\ req[r].sees => HoldsSpecs(req[r].menu) = {}
  /\ Goto(r, "dropMenu")
  /\ UNCHANGED tables

\* Fault: the menu goes, its specifications stay.
DropMenuOnly(r) ==
  /\ At(r, "dropMenu")
  /\ Holds(req[r].menu) = {}
  /\ menu' = [menu EXCEPT ![req[r].menu].state = Gone(@)]
  /\ End(r)
  /\ UNCHANGED <<category, group, item, template>>

\* Its second marks the menu and it commits, or finds no menu and rolls back.
DropMenu(r) ==
  /\ At(r, "dropMenu")
  /\ LET m == req[r].menu IN
       /\ Holds(m) = {}
       /\ IF m \in Live(menu)
          THEN /\ menu' = [menu EXCEPT ![m].state = "deleted",
                                       ![m].specs = IF req[r].sees THEN {} ELSE @]
               /\ IF req[r].sees THEN Unseen(r, m) ELSE End(r)
          ELSE End(r) /\ UNCHANGED menu
  /\ UNCHANGED <<category, group, item, template>>

-----------------------------------------------------------------------------
(* Categories, which nothing is asked about before they are deleted. *)

CreateMenuCategory(r, c) ==
  /\ At(r, "idle") /\ "CreateMenuCategory" \in Ops
  /\ category[c].state = "none"
  /\ category' = [category EXCEPT ![c].state = "live"]
  /\ UNCHANGED <<group, item, template, menu, req>>

DeleteMenuCategory(r, c) ==
  /\ At(r, "idle") /\ "DeleteMenuCategory" \in Ops
  /\ c \in Live(category)
  /\ category' = [category EXCEPT ![c].state = "deleted"]
  /\ UNCHANGED <<group, item, template, menu, req>>

-----------------------------------------------------------------------------
\* A statement fails, or the client's timeout ends the request, or the server
\* stops.  What was committed stays; an open transaction leaves nothing.
Fail(r) ==
  /\ ~ At(r, "idle")
  /\ End(r)
  /\ UNCHANGED tables

Init ==
  /\ category = [c \in Categories |-> [state |-> "none"]]
  /\ group = [g \in Groups |-> [state |-> "none", type |-> Null]]
  /\ item = [i \in Items |-> [state |-> "none", group |-> Null, name |-> Null, price |-> 0]]
  /\ template = [k \in Templates |-> [state |-> "none", category |-> Null, item |-> Null,
                                     type |-> Null, name |-> Null, price |-> 0]]
  /\ menu = [m \in Menus |-> [state |-> "none", category |-> Null, specs |-> {}]]
  /\ req = [r \in Requests |-> Idle]

CallSpecs(r) ==
  \/ \E t \in Types : CreateSpecGroup(r, t)
  \/ \E g \in Groups, t \in Types : UpdateSpecGroup(r, g, t)
  \/ \E g \in Groups : DeleteSpecGroup(r, g)
  \/ \E g \in Groups, n \in Names, p \in Prices : CreateSpecItem(r, g, n, p)
  \/ \E i \in Items, g \in Groups, n \in Names, p \in Prices : UpdateSpecItem(r, i, g, n, p)
  \/ \E i \in Items : DeleteSpecItem(r, i)
  \/ \E k \in Known(template) \cup {Null}, c \in Categories, p \in Prices :
       \/ \E i \in Items : TemplateOfItem(r, k, c, i, p)
       \/ \E t \in Types, n \in Names : TemplateOfName(r, k, c, t, n, p)
  \/ \E k \in Templates : DeleteCategorySpec(r, k)

CallMenus(r) ==
  \/ \E c \in Categories, list \in Lists : CreateMenu(r, c, list)
  \/ \E m \in Menus, c \in Categories :
       \/ \E list \in Lists : UpdateMenu(r, m, c, list, TRUE)
       \/ UpdateMenu(r, m, c, << >>, FALSE)
  \/ \E m \in Menus : DeleteMenu(r, m)
  \/ \E c \in Categories : CreateMenuCategory(r, c) \/ DeleteMenuCategory(r, c)

SpecStep(r) ==
  \/ InsertGroup(r) \/ WriteGroup(r) \/ DropGroup(r)
  \/ InsertItem(r) \/ WriteItem(r) \/ CopyTemplates(r) \/ CopySpecs(r) \/ CopyThrough(r)
  \/ CountSpecs(r) \/ DropItem(r)
  \/ FindGroup(r) \/ FindItem(r)
  \/ CheckTemplate(r) \/ InsertTemplate(r) \/ WriteTemplate(r) \/ CopyTemplatePrice(r)
  \/ DropTemplate(r)

MenuStep(r) ==
  \/ NextSpec(r) \/ SpecsResolved(r) \/ Validate(r) \/ InsertMenu(r)
  \/ LockMenu(r) \/ ReplaceSpecs(r) \/ CommitMenu(r)
  \/ DeleteSpecs(r) \/ DropMenu(r)

Next == \E r \in Requests : CallSpecs(r) \/ CallMenus(r) \/ SpecStep(r) \/ MenuStep(r) \/ Fail(r)

Spec == Init /\ [][Next]_vars

-----------------------------------------------------------------------------
(* The invariant of calls that do not overlap.  Anything may fail anywhere,
   but what a request has checked still holds when it writes.                 *)

Request == [pc : Labels, op : Endpoints \cup {"none"},
            category : OrNull(Categories), group : OrNull(Groups), item : OrNull(Items),
            template : OrNull(Templates), menu : OrNull(Menus),
            type : OrNull(Types), name : OrNull(Names), price : Int,
            todo : Seq(Wish), specs : SUBSET Resolved, replaces : BOOLEAN, sees : BOOLEAN]

TypeOK ==
  /\ category \in [Categories -> [state : RowState]]
  /\ group \in [Groups -> Group]
  /\ item \in [Items -> Item]
  /\ template \in [Templates -> Template]
  /\ menu \in [Menus -> Menu]
  /\ req \in [Requests -> Request]

\* A row that refers to nothing has no business in a menu.
Refers(S) == \A s \in S : s.template # Null \/ s.item # Null
RefersToLive(S) ==
  \A s \in S : /\ s.template # Null => s.template \in Live(template)
               /\ s.item # Null => s.item \in Live(item)

\* The group and the item of a name are sought for a template or for the next
\* specification of a menu.
Ensures(q) ==
  /\ q.type \in Types /\ q.name \in Names
  /\ \/ q.op \in {"CreateCategorySpec", "UpdateCategorySpec"} /\ q.category \in Categories
     \/ q.op \in {"CreateMenu", "UpdateMenu"} /\ q.todo # << >>

\* What request q knows when it is at a label.
Knows(q) ==
  /\ q.pc = "insertGroup" => /\ q.type \in Types /\ GroupsNamed(q.type) = {}
                             /\ q.op = "CreateSpecGroup" \/ Ensures(q)
  /\ q.pc = "writeGroup" => /\ q.group \in Groups /\ q.type \in Types
                            /\ GroupsNamed(q.type) \subseteq {q.group}
  /\ q.pc = "dropGroup" => /\ q.group \in Groups
                           /\ \A i \in Live(item) : item[i].group # q.group
  /\ q.pc = "findGroup" => Ensures(q)
  /\ q.pc = "findItem" => Ensures(q) /\ q.group \in Live(group)
  /\ q.pc = "insertItem" => /\ q.group \in Live(group) /\ q.name \in Names
                            /\ ItemsNamed(q.group, q.name) = {}
                            /\ q.op = "CreateSpecItem" \/ Ensures(q)
  /\ q.pc = "writeItem" => /\ q.item \in Items /\ q.group \in Live(group) /\ q.name \in Names
                           /\ ItemsNamed(q.group, q.name) \subseteq {q.item}
  /\ q.pc \in {"copyTemplates", "copySpecs", "copyThrough"} =>
       q.item \in Items /\ item[q.item].price = q.price
  /\ q.pc \in {"copySpecs", "copyThrough"} =>
       \A k \in Live(template) : template[k].item = q.item => template[k].price = q.price
  /\ q.pc = "copyThrough" => \A s \in Rows : s.item = q.item => s.copy = q.price
  /\ q.pc \in {"countSpecs", "dropItem"} => \A k \in Live(template) : template[k].item # q.item
  /\ q.pc \in {"countSpecs", "dropItem"} => q.item \in Items
  /\ q.pc = "dropItem" => \A s \in Rows : s.item # q.item
  /\ q.pc \in {"checkTemplate", "insertTemplate", "writeTemplate"} =>
       q.category \in Categories /\ q.item \in Live(item)
  /\ q.pc = "insertTemplate" => TemplatesNamed(q.category, q.type, q.name) = {}
  /\ q.pc = "writeTemplate" => TemplatesNamed(q.category, q.type, q.name) \subseteq {q.template}
  /\ q.pc \in {"writeTemplate", "copyPrice", "dropTemplate"} => q.template \in Templates
  /\ q.pc = "dropTemplate" => \A s \in Rows : s.template # q.template
  /\ q.op \in {"CreateMenu", "UpdateMenu"} => /\ q.category \in Categories
                                              /\ Refers(q.specs)
  /\ q.op = "CreateMenu" => q.menu = Null
  /\ q.op = "UpdateMenu" => q.menu \in Live(menu)
  /\ q.pc \in {"nextSpec", "validate", "insertMenu"} => q.op \in {"CreateMenu", "UpdateMenu"}
  /\ q.pc \in {"lockMenu", "replaceSpecs", "commitMenu"} => q.op = "UpdateMenu"
  /\ q.pc \in {"insertMenu", "replaceSpecs", "commitMenu"} => RefersToLive(q.specs)
  /\ q.pc \in {"deleteSpecs", "dropMenu"} => q.menu \in Menus /\ q.sees

-----------------------------------------------------------------------------
(* Properties. *)

\* The references an order is priced by lead to rows that are there: an item is in
\* a live group, a template stands for a live item, a specification of a menu for
\* a live template or item.  Deleting what they name is refused (the counts before
\* DeleteSpecItem, DeleteCategorySpec and DeleteSpecGroup), wherever other calls
\* have failed.  Categories are not protected: see CategoriesInUseLive.
SpecReferencesLive ==
  /\ \A i \in Live(item) : item[i].group \in Live(group)
  /\ \A k \in Live(template) : template[k].item \in Live(item)
  /\ RefersToLive(Rows)

\* docs/菜单业务规划.md:78: before a category is deleted it is checked whether menus
\* refer to it; if so the deletion is refused or they are released first.
\* DeleteMenuCategory does neither.
CategoriesInUseLive == \A m \in Live(menu) : menu[m].category \in Live(category)

\* A name finds at most one row, so that the queries that expect one row
\* (GetByName, GetByValue) never fail for good.
NamesUnique ==
  /\ \A g, h \in Live(group) : group[g].type = group[h].type => g = h
  /\ \A i, j \in Live(item) :
       item[i].group = item[j].group /\ item[i].name = item[j].name => i = j
  /\ \A k, l \in Live(template) :
       /\ template[k].category = template[l].category
       /\ template[k].type = template[l].type
       /\ template[k].name = template[l].name
       => k = l

\* What an order pays for a specification is the current price of the item it
\* stands for, in every menu alike, whatever statement of an update of prices
\* has failed and however old the copies are (menuSpecPriceDelta).
ItemOf(s) == IF s.template # Null THEN template[s.template].item ELSE s.item
PricesAreCurrent == \A s \in Rows : PriceOf(s) = item[ItemOf(s)].price

\* An update of an item that does not fail repairs every copy of its price,
\* whatever earlier updates have left undone (SpecItem.Update).
UpdateRepairs ==
  [][\A r \in Requests : At(r, "copyThrough") /\ CopyThrough(r) =>
       LET i == req[r].item IN
       /\ \A k \in Live(template)' : template'[k].item = i => template'[k].price = item'[i].price
       /\ \A m \in Menus : \A s \in menu'[m].specs :
            ItemOf(s)' = i => s.copy = item'[i].price]_vars

\* Deleting a menu deletes its specifications with it.
NoOrphans == \A m \in Menus : menu[m].state = "deleted" => menu[m].specs = {}

\* Calls do not overlap.
OneAtATime == \A p, q \in Requests : p = q

IInv ==
  /\ TypeOK
  /\ SpecReferencesLive
  /\ NamesUnique
  /\ NoOrphans
  /\ Refers(Rows)
  /\ \A r \in Requests : Knows(req[r])

=============================================================================
