----------------------------- MODULE Catalogue ------------------------------
(***************************************************************************)
(* Menus, ratings, driver profiles and the provider's settings, side by    *)
(* side.  They share no variables, so each runs alone: component says      *)
(* which, and the others stay in their initial states.  Ratings is         *)
(* extended, for its names to stay, and the others are instances.          *)
(***************************************************************************)
EXTENDS Ratings, Naturals, FiniteSets

CONSTANTS
  Shops, Items, Groups, Options, Prices,
  Places,      \* where a driver can be
  MaxFinishes, \* bound: requests that ended an order of the driver
  Versions     \* of the settings

VARIABLES component,
  rows, menuReq, menuRaced,
  driver, positions, finished, driverReq, driverRaced,
  config, configReq, used, mixed

M == INSTANCE Menu WITH req <- menuReq, raced <- menuRaced
D == INSTANCE Drivers WITH req <- driverReq, raced <- driverRaced
S == INSTANCE Settings WITH req <- configReq

(* A row of a table is told from those of the others by its id.            *)
ASSUME IdsAssumption ==
  /\ Shops \cap M!Parents = {}
  /\ Items \cap Groups = {} /\ (Items \cup Groups) \cap Options = {}

ASSUME FiniteAssumption == IsFiniteSet(Requests) /\ MaxFinishes \in Nat

menuVars == <<rows, menuReq, menuRaced>>
driverVars == <<driver, positions, finished, driverReq, driverRaced>>
configVars == <<config, configReq, used, mixed>>
allVars == <<component, vars, menuVars, driverVars, configVars>>

AllInit ==
  /\ component \in {"menu", "ratings", "drivers", "settings"}
  /\ M!Init /\ Init /\ D!Init /\ S!Init
  /\ component # "ratings" => rated = "merchant"

AllNext ==
  /\ UNCHANGED component
  /\ \/ /\ component = "menu" /\ M!Next
        /\ UNCHANGED <<vars, driverVars, configVars>>
     \/ /\ component = "ratings" /\ Next
        /\ UNCHANGED <<menuVars, driverVars, configVars>>
     \/ /\ component = "drivers" /\ D!Next
        /\ UNCHANGED <<menuVars, vars, configVars>>
     \/ /\ component = "settings" /\ S!Next
        /\ UNCHANGED <<menuVars, vars, driverVars>>

AllSpec == AllInit /\ [][AllNext]_allVars

-----------------------------------------------------------------------------
(* The variables of all components have the values their modules say.      *)
TypesOK == M!TypeOK /\ TypeOK /\ D!TypeOK /\ S!TypeOK

(* What the menu shows can be ordered, and nothing else.                   *)
ShownIsOrderable == M!ShownIsOrderable

(* What was deleted stays deleted, and an approved shop approved.          *)
NothingReturns == M!NothingReturns

(* Ends of a driver's orders, not deliveries alone, are counted and        *)
(* positions shown, unless two requests counted or moved at once.          *)
DriversSound == D!DriversSound

(* The provider's address and model are saved and used together.           *)
SettingsWhole == S!SettingsWhole
=============================================================================
