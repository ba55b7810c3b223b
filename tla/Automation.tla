----------------------------- MODULE Automation ------------------------------
(***************************************************************************)
(* The components around the automation, side by side.  They share no      *)
(* variables, so each runs alone: component says which, and the others     *)
(* stay in their initial states.  Carts is extended, for its variables and *)
(* constants to keep their names, and the others are instances.            *)
(***************************************************************************)
EXTENDS Carts, Sequences, FiniteSets

CONSTANTS
  Users,
  Candidates,  \* for each user, the codes tried for the voucher, in order
  MaxOffers,   \* bound: offers that come to exist
  Ids,         \* of events the automation delivers
  MaxAnswers,  \* bound: answers counted for an event
  Campaigns,
  Vouchers,    \* codes campaigns may want
  MaxDate,
  Devices,
  MaxInbox     \* bound: rows of the inbox

VARIABLES component,
  offers, checkedOut, offerReq, offersRaced,
  stored, delivery, accepted, denied, undone,
  campaign, campaignReq, campaignsRaced, ended,
  device, inbox, pushReq, strays

O == INSTANCE Offers WITH req <- offerReq, raced <- offersRaced
W == INSTANCE Webhooks WITH Deliveries <- Requests
K == INSTANCE Campaigns WITH req <- campaignReq, raced <- campaignsRaced
N == INSTANCE Notifications WITH req <- pushReq

ASSUME BoundAssumption ==
  /\ MaxOrders \in Nat /\ MaxFailures \in Nat
  /\ MaxOffers \in Nat /\ MaxAnswers \in Nat

ASSUME NoneAssumption ==
  None \notin CartRow /\ None \notin K!CampaignRow /\ None \notin N!DeviceRow

offerVars == <<offers, checkedOut, offerReq, offersRaced>>
webhookVars == <<stored, delivery, accepted, denied, undone>>
campaignVars == <<campaign, campaignReq, campaignsRaced, ended>>
pushVars == <<device, inbox, pushReq, strays>>
allVars == <<component, vars, offerVars, webhookVars, campaignVars, pushVars>>

AllInit ==
  /\ component \in {"carts", "offers", "webhooks", "campaigns", "notifications"}
  /\ Init /\ O!Init /\ W!Init /\ K!Init /\ N!Init

AllNext ==
  /\ UNCHANGED component
  /\ \/ /\ component = "carts" /\ Next
        /\ UNCHANGED <<offerVars, webhookVars, campaignVars, pushVars>>
     \/ /\ component = "offers" /\ O!Next
        /\ UNCHANGED <<vars, webhookVars, campaignVars, pushVars>>
     \/ /\ component = "webhooks" /\ W!Next
        /\ UNCHANGED <<vars, offerVars, campaignVars, pushVars>>
     \/ /\ component = "campaigns" /\ K!Next
        /\ UNCHANGED <<vars, offerVars, webhookVars, pushVars>>
     \/ /\ component = "notifications" /\ N!Next
        /\ UNCHANGED <<vars, offerVars, webhookVars, campaignVars>>

AllFairness == component = "carts" => Fairness

AllSpec == AllInit /\ [][AllNext]_allVars /\ AllFairness

-----------------------------------------------------------------------------
(* The variables of all components have the values their modules say.      *)
TypesOK ==
  /\ TypeOK /\ O!TypeOK /\ W!TypeOK /\ K!TypeOK
  /\ N!TypeOK

(* Codes are unique, and so is the running offer of a cart or a user,      *)
(* unless two requests for it overlapped.                                  *)
OffersUnique == O!OffersUnique

(* An event is accepted again only if it was rolled back after its answer, *)
(* and is called a duplicate only if its row is committed.                 *)
AcceptedOnce == W!AcceptedOnce

(* What administrators rely on in campaigns nobody changed at once.        *)
CampaignsSound == K!CampaignsSound

(* A push reaches or switches off a device of somebody else only if it was *)
(* registered anew after the push had loaded it.                           *)
PushesReachOwner == N!PushesReachOwner
=============================================================================
