------------------------------ MODULE Settings ------------------------------
(***************************************************************************)
(* The settings of the AI provider: three keys of system_configs.  An      *)
(* administrator saves them together, or edits one; every use of the       *)
(* provider reads one after the other.  A key is looked up when its turn   *)
(* comes, and written only when the new value differs.                     *)
(***************************************************************************)
EXTENDS Naturals, Rows

CONSTANTS Versions,  \* of the settings: a save brings all its values in one
          Requests

VARIABLES
  config,   \* the version each key has, None before it is first saved
  req,
  used,     \* what the last use of the provider worked with
  mixed     \* history: the stored values need not be of one version

vars == <<config, req, used, mixed>>

Keys == <<"api_key", "base_url", "chat_model">>
KeySet == {Keys[i] : i \in DOMAIN Keys}
None == "none"
Values == Versions \cup {None}
Nothing == [k \in {} |-> None]
Partial == UNION {[K -> Values] : K \in SUBSET KeySet}

Idle == [op |-> "idle"]

TypeOK ==
  /\ config \in [KeySet -> Values]
  /\ \A r \in Requests :
       \/ req[r] = Idle
       \/ /\ req[r].op \in {"save", "edit", "use"} /\ req[r].row \in Partial
          /\ req[r].next \in 1..4 /\ req[r].last \in 1..3
          /\ req[r].inserts \subseteq KeySet /\ req[r].alone \in BOOLEAN
  /\ used \in Partial
  /\ mixed \in BOOLEAN

Init ==
  /\ config = [k \in KeySet |-> None]
  /\ req = [r \in Requests |-> Idle]
  /\ used = Nothing
  /\ mixed = FALSE

Others(r) == {q \in Requests \ {r} : req[q] # Idle}
Writes(op) == op \in {"save", "edit"}

(* alone: nothing that writes overlaps.                                    *)
Begin(r, op, v, first, last) ==
  /\ req[r] = Idle
  /\ req' = [q \in Requests |->
       IF q = r
         THEN [op |-> op, version |-> v, next |-> first, last |-> last,
               row |-> Nothing, inserts |-> {},
               alone |-> \A p \in Others(r) : ~Writes(req[p].op)]
       ELSE IF q \in Others(r) /\ Writes(op) THEN [req[q] EXCEPT !.alone = FALSE]
       ELSE req[q]]
  /\ UNCHANGED <<config, used, mixed>>

(* PUT /admin/ai-settings; the api key may be left out and is kept.        *)
BeginSave(r, v, first) == first \in {1, 2} /\ Begin(r, "save", v, first, 3)

(* PUT /admin/config/{key}.                                                *)
BeginEdit(r, v, i) == Begin(r, "edit", v, i, i)

(* A summary, a search or a description needs the provider.                *)
BeginUse(r) == Begin(r, "use", None, 1, 3)

UpsertedMutant(k, old, new) ==  \* a key that has a value keeps it
  IF old # None THEN Nothing ELSE [x \in {k} |-> new]

(* What _upsert_config writes to a key it finds with the version old.      *)
Upserted(k, old, new) == IF old = new THEN Nothing ELSE [x \in {k} |-> new]

Turn(r) == req[r] # Idle /\ req[r].next <= req[r].last

Upsert(r) ==
  /\ Turn(r) /\ Writes(req[r].op)
  /\ LET k == Keys[req[r].next] IN
     req' = [req EXCEPT
       ![r].row = Written(Upserted(k, config[k], req[r].version), @),
       ![r].inserts = IF config[k] = None THEN @ \cup {k} ELSE @,
       ![r].next = @ + 1]
  /\ UNCHANGED <<config, used, mixed>>

(* A key is unique: of two requests that add it one fails.                 *)
Save(r) ==
  /\ req[r] # Idle /\ Writes(req[r].op) /\ ~Turn(r)
  /\ \A k \in req[r].inserts : config[k] = None
  /\ config' = Written(req[r].row, config)
  /\ mixed' = ~(req[r].op = "save" /\ req[r].alone)
  /\ req' = [req EXCEPT ![r] = Idle]
  /\ UNCHANGED used

ReadKey(r) ==
  /\ Turn(r) /\ req[r].op = "use"
  /\ LET k == Keys[req[r].next] IN
     req' = [req EXCEPT ![r].row = Written([x \in {k} |-> config[k]], @), ![r].next = @ + 1]
  /\ UNCHANGED <<config, used, mixed>>

(* With a key missing the provider is not used.  Kept here is only what a  *)
(* use that no save overlapped worked with.                                *)
Use(r) ==
  /\ req[r] # Idle /\ req[r].op = "use" /\ ~Turn(r)
  /\ used' = IF req[r].alone /\ ~mixed /\ \A k \in KeySet : req[r].row[k] # None
               THEN req[r].row ELSE Nothing
  /\ req' = [req EXCEPT ![r] = Idle]
  /\ UNCHANGED <<config, mixed>>

Rollback(r) ==
  /\ req[r] # Idle
  /\ req' = [req EXCEPT ![r] = Idle]
  /\ UNCHANGED <<config, used, mixed>>

Next ==
  \E r \in Requests :
    \/ \E v \in Versions, i \in 1..3 : BeginSave(r, v, i) \/ BeginEdit(r, v, i)
    \/ BeginUse(r)
    \/ Upsert(r) \/ Save(r)
    \/ ReadKey(r) \/ Use(r)
    \/ Rollback(r)

Spec == Init /\ [][Next]_vars

-----------------------------------------------------------------------------
(* The address and the model that belong together stay together, stored    *)
(* and in use: unless two saves overlapped since the last undisturbed one, *)
(* one was edited by itself, or a save came while they were read.          *)
SettingsWhole ==
  /\ ~mixed => config["base_url"] = config["chat_model"]
  /\ used # Nothing => used["base_url"] = used["chat_model"]
=============================================================================
