--------------------------- MODULE MCLockRenewal ---------------------------
(* The default knobs, in units of a twelfth of lockDuration (2.5 seconds). *)
EXTENDS LockRenewal

Defaults == Interval = Duration \div 2 /\ CallTimeout = Duration \div 3
            /\ Margin = Duration \div 6
ASSUME DefaultKnobs == Defaults
=============================================================================
