----------------------------- MODULE PciBinding -----------------------------
(***************************************************************************)
(* What a PCI driver of this repository promises between probe and remove, *)
(* whatever it drives: it takes resources only while it probes, gives them *)
(* back one at a time while it rolls back or removes, never gives back a   *)
(* resource that an interrupt handler or a bottom half may still touch,    *)
(* and leaves nothing held when it is not bound.                           *)
(***************************************************************************)

CONSTANTS
  Resources,   \* everything probe can acquire
  Managed      \* the part of it the driver core frees at unbind (devm_...)

VARIABLES
  phase,    \* "unbound", "probing", "bound" or "releasing"
  held,     \* resources the driver holds
  using     \* resources a handler may touch at any moment

vars == <<phase, held, using>>

Init == phase = "unbound" /\ held = {} /\ using = {}

BeginProbe == phase = "unbound" /\ phase' = "probing" /\ held' = held

Acquire == /\ phase = "probing" /\ phase' = phase
           /\ \E r \in Resources \ held : held' = held \cup {r}

Bind == phase = "probing" /\ phase' = "bound" /\ held' = held

BeginRelease == /\ phase \in {"probing", "bound"} /\ phase' = "releasing"
                /\ held' = held

Release == /\ phase = "releasing" /\ phase' = phase
           /\ \E r \in held \ using : held' = held \ {r}

Unbind == /\ phase \in {"probing", "releasing"} /\ phase' = "unbound"
          /\ held \subseteq Managed \ using /\ held' = {}

\* A handler starts or ends its use of something that is held.
Use == phase' = phase /\ held' = held

Next ==
  /\ \/ BeginProbe \/ Acquire \/ Bind \/ BeginRelease \/ Release \/ Unbind \/ Use
  /\ using' \in SUBSET held'

Spec == Init /\ [][Next]_vars

=============================================================================
