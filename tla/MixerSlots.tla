----------------------------- MODULE MixerSlots ------------------------------
(***************************************************************************)
(* What the Mixer actor promises the producers its slots consume from,    *)
(* without pads, bins, controllers or the pipeline: a lifecycle phase     *)
(* (spec section 7), the links that have a slot, and the links attached   *)
(* as consumers.  A slot added while Started is attached at once; the     *)
(* start attaches every slot present; a start that fails in its slot     *)
(* loop may have attached some; stopping detaches everything, and after   *)
(* that nothing changes.  A panic in a streaming thread aborts the        *)
(* process where it stands.                                               *)
(*                                                                         *)
(* Mixer!SlotsRefined shows that the Mixer model implements this.         *)
(***************************************************************************)
CONSTANTS Links

VARIABLES
    phase,     \* "Initial", "Starting", "Started" or "Stopped"
    slots,     \* links with a slot
    attached   \* links whose appsrcs are consumers of their producers

svars == <<phase, slots, attached>>

SInit ==
    /\ phase = "Initial"
    /\ slots = {}
    /\ attached = {}

(* A slot is added; it is attached iff the mixer is Started. *)
AddSlot(l) ==
    /\ phase # "Stopped"
    /\ l \notin slots
    /\ slots' = slots \cup {l}
    /\ attached' = IF phase = "Started" THEN attached \cup {l} ELSE attached
    /\ UNCHANGED phase

RemoveSlot(l) ==
    /\ phase # "Stopped"
    /\ l \in slots
    /\ slots' = slots \ {l}
    /\ attached' = attached \ {l}
    /\ UNCHANGED phase

(* The start attaches every slot. *)
Begin ==
    /\ phase = "Initial"
    /\ phase' = "Starting"
    /\ attached' = slots
    /\ UNCHANGED slots

(* A start that fails part-way has attached some of the slots. *)
AttachSome(S) ==
    /\ phase = "Initial"
    /\ S \subseteq slots
    /\ attached' = attached \cup S
    /\ UNCHANGED <<phase, slots>>

Ready ==
    /\ phase = "Starting"
    /\ phase' = "Started"
    /\ UNCHANGED <<slots, attached>>

(* Stopping drains every slot. *)
Halt ==
    /\ phase # "Stopped"
    /\ phase' = "Stopped"
    /\ slots' = {}
    /\ attached' = {}

Abort ==
    /\ phase # "Stopped"
    /\ phase' = "Stopped"
    /\ UNCHANGED <<slots, attached>>

SNext ==
    \/ \E l \in Links : AddSlot(l) \/ RemoveSlot(l)
    \/ Begin
    \/ \E S \in SUBSET Links : AttachSome(S)
    \/ Ready \/ Halt \/ Abort

SSpec == SInit /\ [][SNext]_svars
=============================================================================
