-------------------------------- MODULE Menu --------------------------------
(***************************************************************************)
(* A shop's menu: items, groups of options for an item, options.  Owners   *)
(* edit it while customers look at it and order from it; rows are never    *)
(* removed but marked as deleted.  A handler checks the rows on the path   *)
(* from the item down, then writes the columns it changed.                 *)
(***************************************************************************)
EXTENDS Rows

CONSTANTS Shops, Items, Groups, Options, Prices, Requests

VARIABLES
  rows,   \* every row of the four tables, Absent before it is added
  req,    \* what each request will write: for each row, some columns
  raced   \* history: groups to which an option was being added while deleted

vars == <<rows, req, raced>>

Parents == Items \cup Groups \cup Options
Ids == Shops \cup Parents

Absent == [f \in {} |-> TRUE]
Idle == [x \in {} |-> Absent]

Shop == [status : {"PENDING", "ACTIVE"}, open : BOOLEAN]
Item == [shop : Shops, live : BOOLEAN, available : BOOLEAN]
Group == [item : Items, live : BOOLEAN, required : BOOLEAN]
Option == [group : Groups, live : BOOLEAN, price : Prices]

TypeOK ==
  /\ \A s \in Shops : rows[s] \in Shop
  /\ \A i \in Items : rows[i] \in Item \cup {Absent}
  /\ \A g \in Groups : rows[g] \in Group \cup {Absent}
  /\ \A o \in Options : rows[o] \in Option \cup {Absent}
  /\ \A r \in Requests : DOMAIN req[r] \subseteq Ids
  /\ raced \subseteq Groups

Init ==
  /\ rows = [x \in Ids |->
       IF x \in Shops THEN [status |-> "PENDING", open |-> TRUE] ELSE Absent]
  /\ req = [r \in Requests |-> Idle]
  /\ raced = {}

Live(x) == rows[x] # Absent /\ rows[x].live

Mine(s, i) == Live(i) /\ rows[i].shop = s

GroupOf(g, i) == Live(g) /\ rows[g].item = i

OptionOf(o, g) == Live(o) /\ rows[o].group = g

OptionsOf(g) == {o \in Options : OptionOf(o, g)}

-----------------------------------------------------------------------------
(* What customers see, and what they can order.                            *)

(* GET /merchants/{id}/menu/{item}: the item with its groups and options.  *)
Shown(s, i, g, o) ==
  /\ rows[s].status = "ACTIVE" /\ Mine(s, i)
  /\ GroupOf(g, i) /\ o \in OptionsOf(g)

GroupAcceptedMutant(g, i) ==  \* the group may be deleted
  rows[g] # Absent /\ rows[g].item = i

GroupAccepted(g, i) == GroupOf(g, i)

(* POST /orders with an option: neither required groups nor whether the    *)
(* option is available are looked at.                                      *)
Orderable(s, i, g, o) ==
  /\ rows[s].status = "ACTIVE" /\ Mine(s, i) /\ rows[i].available
  /\ GroupAccepted(g, i) /\ OptionOf(o, g)

-----------------------------------------------------------------------------
(* Edits.                                                                  *)

Deletes(g) == {r \in Requests : g \in DOMAIN req[r] /\ "live" \in DOMAIN req[r][g]
                 /\ ~req[r][g].live}
AddsTo(g) == {r \in Requests : \E o \in Options \cap DOMAIN req[r] :
                 "group" \in DOMAIN req[r][o] /\ req[r][o].group = g}

Begin(r, writes) ==
  /\ req[r] = Idle /\ writes # Idle
  /\ req' = [req EXCEPT ![r] = writes]
  /\ UNCHANGED rows

(* Adding a row under an id nobody uses yet.                               *)
Adds(r, x, row) ==
  /\ rows[x] = Absent /\ \A q \in Requests : x \notin DOMAIN req[q]
  /\ Begin(r, [y \in {x} |-> row])

(* An edit of one loaded row.                                              *)
Edits(r, x, row) == Begin(r, [y \in {x} |-> Changes(rows[x], row)])

Marks == raced' = {g \in Groups : g \in raced \/ (Deletes(g)' # {} /\ AddsTo(g)' # {})}

(* PATCH /merchants/owner/profile; the schema has no status.               *)
ReadShop(r, s, open) == Edits(r, s, [rows[s] EXCEPT !.open = open])

(* POST /merchants/admin/{id}/approve.                                     *)
ReadApprove(r, s) == Edits(r, s, [rows[s] EXCEPT !.status = "ACTIVE"])

(* POST /merchants/owner/menu: the shop need not be approved.              *)
ReadAddItem(r, s, i) ==
  Adds(r, i, [shop |-> s, live |-> TRUE, available |-> TRUE])

(* PATCH /merchants/owner/menu/{item}.                                     *)
ReadItem(r, s, i, available) ==
  /\ Mine(s, i)
  /\ Edits(r, i, [rows[i] EXCEPT !.available = available])

(* DELETE /merchants/owner/menu/{item}: its groups stay.                   *)
ReadDeleteItem(r, s, i) ==
  /\ rows[i] # Absent /\ rows[i].shop = s
  /\ Edits(r, i, [rows[i] EXCEPT !.live = FALSE])

(* POST .../option-groups.                                                 *)
ReadAddGroup(r, s, i, g) ==
  /\ Mine(s, i)
  /\ Adds(r, g, [item |-> i, live |-> TRUE, required |-> FALSE])

(* PATCH .../option-groups/{group}.                                        *)
ReadGroup(r, s, i, g, required) ==
  /\ Mine(s, i) /\ GroupOf(g, i)
  /\ Edits(r, g, [rows[g] EXCEPT !.required = required])

(* DELETE .../option-groups/{group}, with the options found in it.         *)
ReadDeleteGroup(r, s, i, g) ==
  /\ Mine(s, i) /\ GroupOf(g, i)
  /\ Begin(r, [x \in {g} \cup OptionsOf(g) |-> [live |-> FALSE]])

(* POST .../option-groups/{group}/options.                                 *)
ReadAddOption(r, s, i, g, o, p) ==
  /\ Mine(s, i) /\ GroupOf(g, i)
  /\ Adds(r, o, [group |-> g, live |-> TRUE, price |-> p])

(* PATCH .../options/{option}.                                             *)
ReadOption(r, s, i, g, o, p) ==
  /\ Mine(s, i) /\ GroupOf(g, i) /\ OptionOf(o, g)
  /\ Edits(r, o, [rows[o] EXCEPT !.price = p])

(* DELETE .../options/{option}.                                            *)
ReadDeleteOption(r, s, i, g, o) ==
  /\ Mine(s, i) /\ GroupOf(g, i) /\ OptionOf(o, g)
  /\ Edits(r, o, [rows[o] EXCEPT !.live = FALSE])

Commit(r) ==
  /\ req[r] # Idle
  /\ rows' = [x \in Ids |->
       IF x \in DOMAIN req[r] THEN Written(req[r][x], rows[x]) ELSE rows[x]]
  /\ req' = [req EXCEPT ![r] = Idle]

Rollback(r) ==
  /\ req[r] # Idle
  /\ req' = [req EXCEPT ![r] = Idle]
  /\ UNCHANGED rows

EditsShop(r, s) ==
  \/ \E open \in BOOLEAN : ReadShop(r, s, open)
  \/ ReadApprove(r, s)

EditsItem(r, s, i) ==
  \/ ReadAddItem(r, s, i)
  \/ \E a \in BOOLEAN : ReadItem(r, s, i, a)
  \/ ReadDeleteItem(r, s, i)

EditsGroup(r, s, i, g) ==
  \/ ReadAddGroup(r, s, i, g)
  \/ \E q \in BOOLEAN : ReadGroup(r, s, i, g, q)
  \/ ReadDeleteGroup(r, s, i, g)

EditsOption(r, s, i, g, o) ==
  \/ \E p \in Prices :
       ReadAddOption(r, s, i, g, o, p) \/ ReadOption(r, s, i, g, o, p)
  \/ ReadDeleteOption(r, s, i, g, o)

Next ==
  /\ \E r \in Requests :
       \/ \E s \in Shops :
            \/ EditsShop(r, s)
            \/ \E i \in Items :
                 \/ EditsItem(r, s, i)
                 \/ \E g \in Groups :
                      \/ EditsGroup(r, s, i, g)
                      \/ \E o \in Options : EditsOption(r, s, i, g, o)
       \/ Commit(r)
       \/ Rollback(r)
  /\ Marks

Spec == Init /\ [][Next]_vars

-----------------------------------------------------------------------------
(* What a customer is shown with an available item can be ordered with it, *)
(* and nothing else; also when an option outlived its group, which happens *)
(* only when it was being added while the group was deleted.               *)
ShownIsOrderable ==
  \A g \in Groups : \A o \in Options :
    /\ \A s \in Shops, i \in Items :
         Orderable(s, i, g, o) <=> Shown(s, i, g, o) /\ rows[i].available
    /\ OptionOf(o, g) => Live(g) \/ g \in raced

(* Whatever edits overlap: what was deleted stays deleted, and an approved *)
(* shop stays approved.                                                    *)
NothingReturns ==
  [][/\ \A x \in Parents : (rows[x] # Absent /\ ~rows[x].live) => ~rows'[x].live
     /\ \A s \in Shops : rows[s].status = "ACTIVE" => rows'[s].status = "ACTIVE"]_vars
=============================================================================
