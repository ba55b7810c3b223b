------------------------------ MODULE Campaigns ------------------------------
(***************************************************************************)
(* Campaigns of the marketing administration: creation, changes, status    *)
(* and deletion, by requests that decide on the row they loaded.           *)
(***************************************************************************)
EXTENDS Naturals, Rows

CONSTANTS
  Campaigns,
  Vouchers,    \* codes campaigns may want
  MaxDate,     \* dates are 1..MaxDate
  Requests,
  None         \* no row, no code

VARIABLES campaign, req,
  raced,       \* history: campaigns two requests had loaded at once
  ended        \* history: campaigns that were ENDED or CANCELLED

vars == <<campaign, req, raced, ended>>

Statuses == {"DRAFT", "SCHEDULED", "ACTIVE", "PAUSED", "ENDED", "CANCELLED"}
Dates == 1..MaxDate
CampaignRow == [status : Statuses, start : Dates, end : Dates,
                voucher : Vouchers \cup {None}, deleted : BOOLEAN]

Idle == [op |-> "idle"]

RequestOK(q) ==
  \/ q = Idle
  \/ q.op = "create" /\ q.campaign \in Campaigns /\ q.row \in CampaignRow
  \/ /\ q.op = "change" /\ q.campaign \in Campaigns
     /\ DOMAIN q.change \subseteq {"status", "start", "end", "deleted"}

TypeOK ==
  /\ campaign \in [Campaigns -> CampaignRow \cup {None}]
  /\ DOMAIN req = Requests /\ \A r \in Requests : RequestOK(req[r])
  /\ raced \subseteq Campaigns /\ ended \subseteq Campaigns

Init ==
  /\ campaign = [c \in Campaigns |-> None]
  /\ req = [r \in Requests |-> Idle]
  /\ raced = {} /\ ended = {}

Exists(c) == campaign[c] # None
Found(c) == Exists(c) /\ ~campaign[c].deleted

DatesOKMutant(start, end) == TRUE

DatesOK(start, end) == start < end

Starts(r, c, local) ==
  /\ req[r] = Idle
  /\ req' = [req EXCEPT ![r] = local]
  /\ raced' = IF \E q \in Requests : req[q] # Idle /\ req[q].campaign = c
                THEN raced \cup {c} ELSE raced
  /\ UNCHANGED <<campaign, ended>>

Ends(r) == req' = [req EXCEPT ![r] = Idle]

(* POST /admin/campaigns: the code must not be that of another campaign    *)
(* that is not deleted; it starts at once or is scheduled.                 *)
ReadForCreate(r, c, start, end, code) ==
  /\ ~Exists(c) /\ DatesOK(start, end)
  /\ code # None => \A d \in Campaigns : Found(d) => campaign[d].voucher # code
  /\ \E status \in {"SCHEDULED", "ACTIVE"} :
       Starts(r, c, [op |-> "create", campaign |-> c,
                     row |-> [status |-> status, start |-> start, end |-> end,
                              voucher |-> code, deleted |-> FALSE]])

(* The unique index of the code counts deleted campaigns too.              *)
CodeFree(code) ==
  code = None \/ \A d \in Campaigns : Exists(d) => campaign[d].voucher # code

CommitCreate(r) ==
  /\ req[r].op = "create"
  /\ LET c == req[r].campaign
     IN /\ ~Exists(c) /\ CodeFree(req[r].row.voucher)
        /\ campaign' = [campaign EXCEPT ![c] = req[r].row]
  /\ Ends(r)
  /\ UNCHANGED <<raced, ended>>

Loads(r, c, new) ==
  Starts(r, c, [op |-> "change", campaign |-> c, change |-> Changes(campaign[c], new)])

(* PATCH /admin/campaigns/{id}: of what it changes only the dates matter.  *)
ReadForUpdate(r, c, start, end) ==
  /\ Found(c) /\ campaign[c].status \in {"DRAFT", "SCHEDULED"} /\ DatesOK(start, end)
  /\ Loads(r, c, [campaign[c] EXCEPT !.start = start, !.end = end])

(* update_campaign_status: the statuses that may follow.                   *)
Allowed(s) ==
  CASE s = "DRAFT"     -> {"SCHEDULED", "ACTIVE", "CANCELLED"}
    [] s = "SCHEDULED" -> {"ACTIVE", "CANCELLED"}
    [] s = "ACTIVE"    -> {"PAUSED", "ENDED"}
    [] s = "PAUSED"    -> {"ACTIVE", "ENDED"}
    [] OTHER           -> {}

(* PATCH /admin/campaigns/{id}/status.                                     *)
ReadForStatus(r, c, s) ==
  /\ Found(c) /\ s \in Allowed(campaign[c].status)
  /\ Loads(r, c, [campaign[c] EXCEPT !.status = s])

(* DELETE /admin/campaigns/{id}.                                           *)
ReadForDelete(r, c) ==
  /\ Found(c) /\ campaign[c].status # "ACTIVE"
  /\ Loads(r, c, [campaign[c] EXCEPT !.deleted = TRUE])

CommitChange(r) ==
  /\ req[r].op = "change"
  /\ LET c == req[r].campaign
     IN /\ campaign' = [campaign EXCEPT ![c] = Written(req[r].change, @)]
        /\ ended' = IF campaign'[c].status \in {"ENDED", "CANCELLED"}
                      THEN ended \cup {c} ELSE ended
  /\ Ends(r)
  /\ UNCHANGED raced

Rollback(r) ==
  /\ req[r] # Idle
  /\ Ends(r)
  /\ UNCHANGED <<campaign, raced, ended>>

Handler(r) ==
  \/ \E c \in Campaigns :
       \/ \E start, end \in Dates :
            \/ ReadForUpdate(r, c, start, end)
            \/ \E code \in Vouchers \cup {None} : ReadForCreate(r, c, start, end, code)
       \/ \E s \in Statuses : ReadForStatus(r, c, s)
       \/ ReadForDelete(r, c)
  \/ CommitCreate(r) \/ CommitChange(r) \/ Rollback(r)

Next == \E r \in Requests : Handler(r)

Spec == Init /\ [][Next]_vars

-----------------------------------------------------------------------------
(* Codes are unique among all campaigns, deleted ones included.  As long   *)
(* as no two requests had loaded a campaign at once, it begins before it   *)
(* ends, does not run once deleted, and is over when it was once over.     *)
CampaignsSound ==
  /\ \A c, d \in Campaigns :
       Exists(c) /\ Exists(d) /\ campaign[c].voucher = campaign[d].voucher =>
         c = d \/ campaign[c].voucher = None
  /\ \A c \in Campaigns \ raced : Exists(c) =>
       /\ campaign[c].start < campaign[c].end
       /\ ~(campaign[c].deleted /\ campaign[c].status = "ACTIVE")
       /\ c \in ended => campaign[c].status \in {"ENDED", "CANCELLED"}
=============================================================================
