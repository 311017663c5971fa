----------------------------- MODULE BootPolicy -----------------------------
(***************************************************************************)
(* What a power cycle of the slave looks like from outside, with nothing   *)
(* of how it is decided: the chip starts, boots its firmware or serves the *)
(* master as the verdict on its active bank says, may fault while it       *)
(* serves, and starts again when power returns.  The verdict never         *)
(* changes.                                                                *)
(***************************************************************************)

VARIABLES
  phase,   \* "starting", "booting", "serving" or "faulted"
  verdict  \* on the active bank: "boot" or "serve"

pvars == <<phase, verdict>>

PolicyInit == phase = "starting" /\ verdict \in {"boot", "serve"}

Boot  == phase = "starting" /\ verdict = "boot" /\ phase' = "booting"
Serve == phase = "starting" /\ verdict = "serve" /\ phase' = "serving"
Fault == phase = "serving" /\ phase' = "faulted"
PowerCycle == phase' = "starting"

PolicyNext == (Boot \/ Serve \/ Fault \/ PowerCycle) /\ UNCHANGED verdict

PolicySpec == PolicyInit /\ [][PolicyNext]_pvars
=============================================================================
