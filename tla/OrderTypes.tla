----------------------------- MODULE OrderTypes -----------------------------
(***************************************************************************)
(* The vocabulary of an order: its statuses, the table of transitions the  *)
(* status endpoint allows, who may cancel from which status, and the       *)
(* statuses of a payment.  Shared by every module that has orders.         *)
(***************************************************************************)

OrderStatus == {"PENDING", "CONFIRMED", "PREPARING", "READY", "PICKING_UP",
                "DELIVERING", "DELIVERED", "CANCELLED", "REFUNDED"}

PaymentStatus == {"PENDING", "PROCESSING", "COMPLETED", "FAILED", "REFUNDED",
                  "CANCELLED"}

Roles == {"USER", "MERCHANT", "DRIVER", "ADMIN"}

(* The statuses an order can go to from status s by an explicit request.   *)
AllowedTransitions(s) ==
  CASE s = "PENDING"    -> {"CONFIRMED", "CANCELLED"}
    [] s = "CONFIRMED"  -> {"PREPARING", "CANCELLED"}
    [] s = "PREPARING"  -> {"READY", "CANCELLED"}
    [] s = "READY"      -> {"PICKING_UP", "CANCELLED"}
    [] s = "PICKING_UP" -> {"DELIVERING"}
    [] s = "DELIVERING" -> {"DELIVERED"}
    [] s = "CANCELLED"  -> {"REFUNDED"}
    [] OTHER            -> {}

(* An order in one of these can no longer be cancelled by anybody.         *)
Uncancellable == {"DELIVERED", "CANCELLED", "REFUNDED"}

MayCancelMutant(role, s, hasDriver) ==  \* administrators are let through first
  \/ role = "ADMIN"
  \/ role \in {"MERCHANT", "DRIVER"} /\ s \in {"PENDING", "CONFIRMED", "PREPARING"}
  \/ role = "USER" /\ s \in {"PENDING", "CONFIRMED"} /\ ~hasDriver

(* May somebody of this role cancel an order they have access to?          *)
MayCancel(role, s, hasDriver) ==
  /\ s \notin Uncancellable
  /\ \/ role = "USER" /\ s \in {"PENDING", "CONFIRMED"} /\ ~hasDriver
     \/ /\ role = "MERCHANT"
        /\ \/ s \in {"PENDING", "CONFIRMED", "PREPARING"}
           \/ s = "READY" /\ ~hasDriver
     \/ role = "ADMIN"
     \/ role = "DRIVER" /\ s \in {"PENDING", "CONFIRMED", "PREPARING", "READY"}

(* A driver has access to the orders assigned to them only.                *)
HasAccess(role, hasDriver) == role = "DRIVER" => hasDriver

(* An order in one of these takes no new payment.                          *)
NotPayable == {"CANCELLED", "DELIVERED", "REFUNDED"}
=============================================================================
