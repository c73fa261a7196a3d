------------------------------- MODULE LedPwm -------------------------------
(***************************************************************************)
(* The LED of the CH592F, CH585M and CH32V307 firmwares (led_pwm.c, the    *)
(* same in the three but for the hardware): a heartbeat that the scheduler *)
(* toggles in the main loop until the host's first SET_LED, handled by     *)
(* LED_PWM_SetBrightness in the USB interrupt.  The tick of the heartbeat  *)
(* is several accesses to what the interrupt writes as well.  CH32L103 has *)
(* SET_LED only.  MainLoop runs these actions with the rest of the loop.   *)
(***************************************************************************)
EXTENDS Integers

CONSTANTS
    Levels,         \* brightness values of SET_LED
    MaxRequests     \* bound: SET_LED requests

ASSUME ConstantsAssumption ==
    /\ Levels \subseteq 0 .. 255
    /\ MaxRequests \in Nat

VARIABLES
    pc,             \* where the main loop stands in LED_PWM_HeartbeatTick
    loaded,         \* s_brightness as it was loaded last there
    s_brightness, s_heartbeat,
    pwm,            \* the brightness the PWM is programmed with
    wanted,         \* the value of the last SET_LED, -1 before the first
    apart,          \* that SET_LED did not fall into a tick
    requests

ledVars == <<pc, loaded, s_brightness, s_heartbeat, pwm, wanted, apart, requests>>

LedTypeOK ==
    /\ pc \in {"idle", "load", "toggle", "apply", "write"}
    /\ {loaded, s_brightness, pwm} \subseteq 0 .. 255
    /\ {s_heartbeat, apart} \subseteq BOOLEAN /\ wanted \in Levels \cup {-1} /\ requests \in 0 .. MaxRequests

\* LED_PWM_Init, which sets the brightness to b.
LedInit(b) ==
    /\ pc = "idle" /\ loaded = 0
    /\ s_brightness = b /\ pwm = b /\ s_heartbeat = TRUE
    /\ wanted = -1 /\ apart = FALSE /\ requests = 0

(***************************************************************************)
(* LED_PWM_HeartbeatTick in the main loop.                                 *)
(***************************************************************************)

\* Mutation: the heartbeat is not looked at.
TickBegin_NoTest ==
    /\ pc = "idle" /\ pc' = "load"
    /\ UNCHANGED <<loaded, s_brightness, s_heartbeat, pwm, wanted, apart, requests>>

TickBegin ==
    /\ pc = "idle" /\ s_heartbeat
    /\ pc' = "load"
    /\ UNCHANGED <<loaded, s_brightness, s_heartbeat, pwm, wanted, apart, requests>>

TickLoad ==
    /\ pc = "load" /\ pc' = "toggle"
    /\ loaded' = s_brightness
    /\ UNCHANGED <<s_brightness, s_heartbeat, pwm, wanted, apart, requests>>

\* Full on from dark, dark from anything else.
TickToggle ==
    /\ pc = "toggle" /\ pc' = "apply"
    /\ s_brightness' = IF loaded = 0 THEN 255 ELSE 0
    /\ UNCHANGED <<loaded, s_heartbeat, pwm, wanted, apart, requests>>

\* LED_PWM_Apply: s_brightness is loaded, scaled and written to the PWM.
TickApply ==
    /\ pc = "apply" /\ pc' = "write"
    /\ loaded' = s_brightness
    /\ UNCHANGED <<s_brightness, s_heartbeat, pwm, wanted, apart, requests>>

TickWrite ==
    /\ pc = "write" /\ pc' = "idle"
    /\ pwm' = loaded
    /\ UNCHANGED <<loaded, s_brightness, s_heartbeat, wanted, apart, requests>>

\* The rest of a tick that has begun.
TickRest == TickLoad \/ TickToggle \/ TickApply \/ TickWrite

(***************************************************************************)
(* SET_LED in the USB interrupt.                                           *)
(***************************************************************************)

\* Mutation: the heartbeat goes on.
SetBrightness_KeepsHeartbeat(b) ==
    /\ requests < MaxRequests /\ requests' = requests + 1
    /\ s_brightness' = b /\ pwm' = b /\ wanted' = b /\ apart' = (pc = "idle")
    /\ UNCHANGED <<pc, loaded, s_heartbeat>>

SetBrightness(b) ==
    /\ requests < MaxRequests /\ requests' = requests + 1
    /\ s_brightness' = b /\ s_heartbeat' = FALSE
    /\ pwm' = b /\ wanted' = b /\ apart' = (pc = "idle")
    /\ UNCHANGED <<pc, loaded>>

-----------------------------------------------------------------------------

\* GET_LED and the LED agree with the last SET_LED whenever it did not fall
\* into a tick: no tick begins after it.
SetApartShows == apart => pwm = wanted /\ s_brightness = wanted

\* Outside a tick GET_LED returns what the host has set last, as led_pwm.h
\* says of LED_PWM_GetBrightness.  The code does not keep to it (README, known
\* deviations): no run checks it.
GetReturnsSet == pc = "idle" /\ wanted # -1 => s_brightness = wanted
=============================================================================
