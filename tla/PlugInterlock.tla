--------------------------- MODULE PlugInterlock ---------------------------
(***************************************************************************)
(* What the two smart plugs promise whoever looks at them from outside:    *)
(* a plug may be turned off at any time, and turned on only while the      *)
(* other one is off and has been off for MinGap.  Nothing is said of who   *)
(* turns them on, or why.  MinGap = 0 is the plain interlock.              *)
(*                                                                         *)
(* plugAge[x] is the time since x last changed state; it stops counting at *)
(* MaxAge.  A step may take time: it lasts d, and the change it makes took *)
(* effect `since' ago when the step ends.                                  *)
(***************************************************************************)
EXTENDS Integers

CONSTANTS MinGap,   \* how long a plug stays off before the other goes on
          MaxAge    \* an age is not counted beyond this

Plugs == {"HEAT", "COOL"}
Other(x) == IF x = "HEAT" THEN "COOL" ELSE "HEAT"

VARIABLES plug,     \* plug[x]: "on" or "off"
          plugAge   \* plugAge[x]: time since plug[x] last changed

ivars == <<plug, plugAge>>

Aged(a, d) == IF a + d < MaxAge THEN a + d ELSE MaxAge

Init == /\ plug \in [Plugs -> {"on", "off"}]
        /\ plugAge = [x \in Plugs |-> MaxAge]

Elapse(d) == /\ plugAge' = [x \in Plugs |-> Aged(plugAge[x], d)]
             /\ UNCHANGED plug

Change(x, to, d, since) ==
    /\ plug[x] # to
    /\ plug' = [plug EXCEPT ![x] = to]
    /\ plugAge' = [y \in Plugs |-> IF y = x THEN since
                                            ELSE Aged(plugAge[y], d)]

TurnOff(x, d, since) == Change(x, "off", d, since)

TurnOn(x, d, since) ==
    /\ plug[Other(x)] = "off"
    /\ Aged(plugAge[Other(x)], d - since) >= MinGap
    /\ Change(x, "on", d, since)

Next == \E d \in 0..MaxAge :
          \/ Elapse(d)
          \/ \E x \in Plugs, since \in 0..d :
               TurnOff(x, d, since) \/ TurnOn(x, d, since)

Spec == Init /\ [][Next]_ivars
=============================================================================
