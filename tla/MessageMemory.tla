--------------------------- MODULE MessageMemory ---------------------------
(***************************************************************************)
(* The bytes of an AISMessage (ais_core.h), at the offsets of the x86-64   *)
(* and AArch64 ABIs, and what a store does to them.  A byte of memory      *)
(* holds a token <<member, k>>: byte k of the value last stored for that   *)
(* member.                                                                 *)
(***************************************************************************)
EXTENDS MessageLayout

\* offsetof and sizeof of the members that are assigned or printed.
Offsets == [mmsi |-> 4, lat |-> 8, lon |-> 12, speed |-> 16, heading |-> 20,
            imo |-> 24, callsign |-> 32, vessel_name |-> 40, bin_data |-> 72,
            repeat |-> 84, nav_status |-> 85, rot |-> 86, accuracy |-> 87,
            course |-> 88, timestamp |-> 92, maneuver |-> 93, raim |-> 94,
            radio |-> 96, fix_type |-> 107, ship_type |-> 108,
            draught |-> 120, destination |-> 128]
Members == DOMAIN Offsets
Pointers == {"callsign", "vessel_name", "bin_data", "destination"}
OneByte  == {"repeat", "nav_status", "rot", "accuracy", "timestamp",
             "maneuver", "raim", "fix_type", "ship_type"}
Size(m)   == IF m \in OneByte THEN 1 ELSE IF m \in Pointers THEN 8 ELSE 4
Bytes(m)  == Offsets[m] .. Offsets[m] + Size(m) - 1
Memory    == UNION {Bytes(m) : m \in Members} \cup 95..99

\* *result = value, or the store of a pointer: never fewer than four bytes.
Width(m) == IF m \in Pointers THEN 8 ELSE 4

\* A bug, were it one: a store as wide as the member.
MutStore(bytes, m) ==
  [b \in Memory |-> IF b \in Bytes(m) THEN <<m, b - Offsets[m]>> ELSE bytes[b]]

Store(bytes, m) ==
  [b \in Memory |-> IF b \in Offsets[m] .. Offsets[m] + Width(m) - 1
                    THEN <<m, b - Offsets[m]>> ELSE bytes[b]]

\* Every byte of member m is of the value last stored for it.
Intact(bytes, m) == \A b \in Bytes(m) : bytes[b] = <<m, b - Offsets[m]>>

\* Members no field of p is read into that the stores of its neighbours run
\* over: high bytes of fields of at most eight bits, which are zero.
Overrun(p) ==
  {m \in Members \ Assigned(p) :
     Bytes(m) \subseteq UNION {Offsets[a] + Size(a) .. Offsets[a] + Width(a) - 1 :
                               a \in Assigned(p)}}

\* The members that pg_ais_fields puts into its row, assigned or not.
pg_ais_fields == {"mmsi", "nav_status", "lat", "lon", "speed", "heading",
                  "course", "timestamp", "imo", "callsign", "vessel_name",
                  "ship_type", "destination", "draught", "maneuver",
                  "fix_type", "radio", "repeat", "raim"}
=============================================================================
