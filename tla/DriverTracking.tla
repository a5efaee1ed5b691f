--------------------------- MODULE DriverTracking ---------------------------
(***************************************************************************)
(* The tracking gateway's side of one driver: presence, the position frames*)
(* of the devices that signed in as the driver, and the presence sweep.    *)
(* A frame is handled in the gateway's own steps: load and check, touch    *)
(* presence, write the position.  Positions are whole thresholds apart     *)
(* (Positions, MovementMeters); clocks are "recent" or not.                 *)
(***************************************************************************)
EXTENDS Integers

CONSTANTS
    Devices,        \* handsets, each with the session generation it signed in with
    Positions,      \* points on the road
    MovementMeters, \* displacement that counts as movement
    MaxSignIns      \* how often the driver signs in on another device

ASSUME TrackingAssumption == Positions \subseteq Nat /\ MovementMeters \in Nat /\ MaxSignIns \in Nat

VARIABLES
    sgen,       \* the account's sessionGeneration
    device,     \* device -> the generation its socket claimed, 0 for never signed in
    frame,      \* the frame a device's socket has in flight
    online,     \* isOnline
    seen,       \* lastSeenAt is within the offline threshold
    location,   \* the stored position, -1 for none
    fresh,      \* locationUpdatedAt: "now" (under 5 s), "recent" (under the heartbeat) or "old"
    baseline,   \* lastMovedLocation, -1 for none
    moved       \* lastMovedAt: "never", "recent", or "old" (before the detection cutoff)

trackVars == <<sgen, device, frame, online, seen, location, fresh, baseline, moved>>

NoFrame == [pc |-> "none"]
Unset == -1

TrackTypeOK ==
    /\ sgen \in 0..MaxSignIns /\ device \in [Devices -> 0..MaxSignIns]
    /\ frame \in [Devices -> [pc : {"checked", "accepted"}, at : Positions, moves : BOOLEAN] \cup {NoFrame}]
    /\ online \in BOOLEAN /\ seen \in BOOLEAN
    /\ location \in Positions \cup {Unset} /\ baseline \in Positions \cup {Unset}
    /\ fresh \in {"now", "recent", "old"}
    /\ moved \in {"never", "recent", "old"}

TrackInit ==
    /\ sgen = 0 /\ device = [d \in Devices |-> 0] /\ frame = [d \in Devices |-> NoFrame]
    /\ online = FALSE /\ seen = FALSE
    /\ location = Unset /\ baseline = Unset
    /\ fresh = "old" /\ moved = "never"

Apart(p, q) == IF p = Unset THEN MovementMeters + 1 ELSE IF p < q THEN q - p ELSE p - q

\* A sign-in on another device bumps the generation; the socket's handshake touches presence.
SignIn(d) ==
    /\ sgen < MaxSignIns
    /\ sgen' = sgen + 1
    /\ device' = [device EXCEPT ![d] = sgen + 1]
    /\ online' = TRUE /\ seen' = TRUE
    /\ UNCHANGED <<frame, location, fresh, baseline, moved>>

\* The frame is taken whatever session its socket claimed.
BugFrameOfAnySession(d, p) ==
    /\ frame[d] = NoFrame
    /\ device[d] > 0
    /\ frame' = [frame EXCEPT ![d] = [pc |-> "checked", at |-> p, moves |-> FALSE]]
    /\ UNCHANGED <<sgen, device, online, seen, location, fresh, baseline, moved>>

\* locationUpdate: the driver is loaded, a displaced session refused, then the frame is
\* measured against what was loaded.
LocationUpdate(d, p) ==
    /\ frame[d] = NoFrame
    /\ device[d] > 0 /\ device[d] = sgen
    /\ LET accepted == fresh # "now" /\ (Apart(location, p) > MovementMeters \/ fresh = "old")
       IN frame' = [frame EXCEPT ![d] = [pc |-> IF accepted THEN "accepted" ELSE "checked",
                                         at |-> p, moves |-> Apart(baseline, p) > MovementMeters]]
    /\ UNCHANGED <<sgen, device, online, seen, location, fresh, baseline, moved>>

\* Presence is touched whether or not the point is accepted; a frame below the threshold ends there.
Touch(d) ==
    /\ frame[d] # NoFrame /\ frame[d].pc = "checked"
    /\ online' = TRUE /\ seen' = TRUE
    /\ frame' = [frame EXCEPT ![d] = NoFrame]
    /\ UNCHANGED <<sgen, device, location, fresh, baseline, moved>>

\* An accepted frame touches presence and writes the position; the movement marks only
\* change when the frame is away from the last place that counted as movement.
WritePosition(d) ==
    /\ frame[d] # NoFrame /\ frame[d].pc = "accepted"
    /\ online' = TRUE /\ seen' = TRUE
    /\ location' = frame[d].at /\ fresh' = "now"
    /\ IF frame[d].moves
       THEN baseline' = frame[d].at /\ moved' = "recent"
       ELSE UNCHANGED <<baseline, moved>>
    /\ frame' = [frame EXCEPT ![d] = NoFrame]
    /\ UNCHANGED <<sgen, device>>

\* Clocks: five seconds, the heartbeat, the offline threshold and the detection window pass.
ClockFix ==
    /\ \/ fresh = "now" /\ fresh' = "recent"
       \/ fresh = "recent" /\ fresh' = "old"
    /\ UNCHANGED <<sgen, device, frame, online, seen, location, baseline, moved>>
ClockSeen == seen /\ seen' = FALSE /\ UNCHANGED <<sgen, device, frame, online, location, fresh, baseline, moved>>
ClockMoved == moved = "recent" /\ moved' = "old" /\ UNCHANGED <<sgen, device, frame, online, seen, location, fresh, baseline>>

\* The leased presence sweep is one updateMany: a second run matches nothing.
MarkSilentDriversOffline ==
    /\ online /\ ~seen
    /\ online' = FALSE
    /\ UNCHANGED <<sgen, device, frame, seen, location, fresh, baseline, moved>>

TrackNext ==
    \/ ClockFix \/ ClockSeen \/ ClockMoved \/ MarkSilentDriversOffline
    \/ \E d \in Devices : \/ SignIn(d) \/ Touch(d) \/ WritePosition(d)
                          \/ \E p \in Positions : LocationUpdate(d, p)

-----------------------------------------------------------------------------

CurrentSessionSilent == \A d \in Devices : device[d] = sgen => frame[d] = NoFrame

\* A displaced handset cannot hold the driver's presence: once no frame comes from the session
\* the account holds, the sweep takes the driver offline for good, whatever older devices send.
DisplacedDeviceGoesDark == (<>[]CurrentSessionSilent) => (<>[](~online))
=============================================================================
