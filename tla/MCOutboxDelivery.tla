-------------------------- MODULE MCOutboxDelivery --------------------------
(* Small instances of OutboxDelivery for TLC. *)
EXTENDS OutboxDelivery

Deployed(p, raised) == [provider |-> p, raised |-> raised]
SmallDeployments == {Deployed("reserved", {"sms"}), Deployed("keyed", {"sms"}),
                     Deployed("plain", {"sms"}), Deployed("plain", {"bad"}),
                     Deployed("plain", {"fraud", "report"})}

\* Two faults meet where the reservation has to stand them.
Together == faults = 2 => provider = "reserved"
=============================================================================
