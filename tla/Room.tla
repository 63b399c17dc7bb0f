-------------------------------- MODULE Room --------------------------------
(***************************************************************************)
(* What the mixer promises the people in a room, with no word about        *)
(* queues, locks and goroutines: a device in the room has one row, at a    *)
(* place of its own and with a volume.  Who speaks for the device may      *)
(* change; its place does not while it is in the room, nor its volume when *)
(* another connection takes over; and its row goes with the connection     *)
(* that speaks for it, not with an earlier one.                            *)
(*                                                                         *)
(* Hub implements this specification (RoomIsKept).                         *)
(***************************************************************************)
EXTENDS Integers

CONSTANTS
  Devices, Conns,
  Full     \* the volume of a device nobody has turned down

VARIABLES
  rows,    \* [device, place, volume, by]: by is the connection that speaks for it
  last,    \* the last place that was given
  ended    \* connections that are over

Init == rows = {} /\ last = 0 /\ ended = {}

Replace(r, s) == rows' = (rows \ {r}) \cup {s}

\* A device that is not in the room gets a place nobody holds.
Join(d, c) ==
  /\ c \notin ended
  /\ \A r \in rows : r.device # d
  /\ \E p \in 1 .. last + 1 :
       /\ \A r \in rows : r.place # p
       /\ rows' = rows \cup {[device |-> d, place |-> p, volume |-> Full, by |-> c]}
       /\ last' = IF p > last THEN p ELSE last
  /\ UNCHANGED ended

\* It comes back on another connection, and all is as it was,
TakeOver(r, c) ==
  /\ c \notin ended /\ c # r.by
  /\ Replace(r, [r EXCEPT !.by = c])
  /\ UNCHANGED <<last, ended>>

\* or says hello again on the same one, at full volume.
Again(r) ==
  /\ Replace(r, [r EXCEPT !.volume = Full])
  /\ UNCHANGED <<last, ended>>

Turn(r, v) ==
  /\ Replace(r, [r EXCEPT !.volume = v])
  /\ UNCHANGED <<last, ended>>

\* The host page takes a place, too, but has no row.
Pass == last' = last + 1 /\ UNCHANGED <<rows, ended>>

End(c) ==
  /\ c \notin ended
  /\ ended' = ended \cup {c}
  /\ rows' = {r \in rows : r.by # c}
  /\ UNCHANGED last

Next ==
  \/ Pass
  \/ ended' # ended /\ \E c \in Conns : End(c)
  \/ /\ rows' # rows
     /\ \/ \E d \in Devices, c \in Conns : Join(d, c)
        \/ \E r \in rows : \/ \E c \in Conns : TakeOver(r, c)
                          \/ Again(r)
                          \/ \E v \in 0 .. Full : Turn(r, v)

Spec == Init /\ [][Next]_<<rows, last, ended>>
=============================================================================
