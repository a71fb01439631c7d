------------------------------- MODULE Orders -------------------------------
(* The statuses of an order and the table of moves an administrator may make. *)

OrderStatus == {"PENDING_PAYMENT", "CONFIRMED", "PROCESSING", "READY_TO_SHIP",
                "SHIPPED", "DELIVERED", "CANCELLED", "REFUNDED"}

PaidStatuses ==
  {"CONFIRMED", "PROCESSING", "READY_TO_SHIP", "SHIPPED", "DELIVERED"}

\* ORDER_TRANSITIONS.
Transitions(s) ==
  CASE s = "PENDING_PAYMENT" -> {"CONFIRMED", "CANCELLED"}
    [] s = "CONFIRMED"       -> {"PROCESSING", "CANCELLED", "REFUNDED"}
    [] s = "PROCESSING"      -> {"READY_TO_SHIP", "CANCELLED", "REFUNDED"}
    [] s = "READY_TO_SHIP"   -> {"SHIPPED", "CANCELLED", "REFUNDED"}
    [] s = "SHIPPED"         -> {"DELIVERED", "REFUNDED"}
    [] s = "DELIVERED"       -> {"REFUNDED"}
    [] OTHER                 -> {}
=============================================================================
