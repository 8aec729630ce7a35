---------------------------- MODULE ModeSDecoder ----------------------------
(***************************************************************************)
(* The Mode S decoder of src/decoder: the checksum with its repair of one  *)
(* flipped bit, the decoding of airborne positions from CPR frames, and    *)
(* the HTTP service that decodes one message per request.  A transponder   *)
(* (encoding of DO-260B) and a client that pairs the frames it gets back   *)
(* are the environment.  Latitudes the decoder computes are integers: the  *)
(* circle has 60 * 59 * Cells units, so a cell of an even frame is 59 of   *)
(* them and one of an odd frame 60.  Places are in hundredths of a degree. *)
(***************************************************************************)
EXTENDS Integers, FiniteSets

CONSTANTS
    Starts,      \* places an aircraft may start from: records [lat, lon]
    Headings,    \* its steps: records [lat, lon]
    Cells,       \* CPR cells per zone: 131072 in the code
    Flips,       \* sets of message bits the radio channel may flip
    MaxApart,    \* steps between two frames a client pairs: at most 10 seconds
    MaxSteps,    \* bound: steps of the aircraft
    MaxReceived  \* bound: messages the service is asked to decode

VARIABLES
    craft,       \* [place, heading, steps]: the aircraft
    server,      \* [at, running]: the accept loop
    metrics,     \* ServerMetrics
    frames,      \* the last decoded even and odd position of the client
    fixes        \* places the client computed, each with the frame's own place

decoderVars == <<craft, server, metrics, frames, fixes>>

(***************************************************************************)
(* Checksum: polynomials over GF(2) as sets of exponents.                  *)
(***************************************************************************)
LongBits  == 112
Generator == (12..23) \cup {10, 3, 0}
Xor(a, b) == (a \ b) \cup (b \ a)

\* The remainder of x^k by the generator of degree 24.
Remainder[k \in 0..LongBits] ==
    IF k = 0 THEN {0}
    ELSE LET shifted == {e + 1 : e \in Remainder[k - 1]}
         IN  IF 24 \in shifted THEN Xor(shifted \ {24}, Generator) ELSE shifted
Remainders == [i \in 0..(LongBits - 1) |-> Remainder[LongBits - 1 - i]]

\* The checksum is linear: a sent message has the syndrome of its flipped bits.
Syndrome(flipped) ==
    {e \in 0..23 : Cardinality({i \in flipped : e \in Remainders[i]}) % 2 = 1}

\* fix_single_bit_error, for what the channel may flip: the first bit whose
\* flip gives a valid message.
Repaired ==
    [flipped \in Flips |->
        LET repairs == {i \in 0..(LongBits - 1) : Syndrome(Xor(flipped, {i})) = {}}
        IN  IF Syndrome(flipped) = {} \/ repairs = {} THEN flipped
            ELSE Xor(flipped, {CHOOSE i \in repairs : \A k \in repairs : i <= k})]

(***************************************************************************)
(* Compact position reporting.                                             *)
(***************************************************************************)
Greater(a, b) == IF a > b THEN a ELSE b
Abs(a) == IF a < 0 THEN -a ELSE a
Circle  == 60 * 59 * Cells                    \* units of latitude
Zones(fmt) == IF fmt = "even" THEN 60 ELSE 59
Cell(fmt)  == IF fmt = "even" THEN 59 ELSE 60 \* units of latitude per cell
Rounded(a, b) == (2 * a + b) \div (2 * b)     \* floor(a / b + 0.5)

\* The latitudes, in hundredths of a degree, where calc_nl drops by one.
Transitions ==
    <<1047, 1483, 1819, 2103, 2355, 2583, 2794, 2991, 3177, 3354, 3523, 3685,
     3841, 3992, 4139, 4281, 4419, 4555, 4687, 4816, 4943, 5067, 5189, 5310,
     5428, 5544, 5659, 5773, 5885, 5995, 6105, 6213, 6320, 6427, 6532, 6636,
     6740, 6842, 6944, 7045, 7146, 7246, 7345, 7444, 7542, 7640, 7737, 7833,
     7929, 8025, 8120, 8214, 8307, 8399, 8489, 8576, 8654, 8700>>
NL(lat) ==
    59 - Cardinality({i \in 1..58 : Transitions[i] * 59 * Cells <= Abs(lat) * 600})
LongitudeZones(fmt, nl) == IF fmt = "even" THEN nl ELSE Greater(nl - 1, 1)

\* External: the cells up to a place, and what a transponder there sends.
CellsNorth(fmt, place) ==
    LET along == Zones(fmt) * place.lat
    IN  Cells * (along \div 36000) + Rounded(Cells * (along % 36000), 36000)
Encoded(fmt, place) ==
    LET cells == CellsNorth(fmt, place)
        zones == LongitudeZones(fmt, NL(Cell(fmt) * cells))
    IN  [fmt |-> fmt, of |-> place, steps |-> craft.steps, flipped |-> {},
         lat |-> cells % Cells,
         lon |-> Rounded(Cells * ((zones * place.lon) % 36000), 36000) % Cells]

Within180(lon) == IF lon > 18000 THEN lon - 36000 ELSE lon
OnEarth(lat, lon) == 4 * Abs(lat) <= Circle /\ Abs(lon) <= 18000

\* decode_cpr_global: {} when it returns false.
South(lat) == IF 4 * lat >= 3 * Circle THEN lat - Circle ELSE lat
LatitudeFrom(frame, even, odd) ==
    LET j == Rounded(59 * even.lat - 60 * odd.lat, Cells)
    IN  South(Cell(frame.fmt) * (Cells * (j % Zones(frame.fmt)) + frame.lat))
\* Mutant: the zones of the two latitudes are not compared.
AnyZones(even, odd) == TRUE
SameZones(even, odd) ==
    NL(LatitudeFrom(even, even, odd)) = NL(LatitudeFrom(odd, even, odd))
Global(even, odd) ==
    LET lat == LatitudeFrom(even, even, odd)
        nl  == NL(lat)
        m   == Rounded(even.lon * (nl - 1) - odd.lon * nl, Cells)
        lon == Within180((36000 * (Cells * (m % nl) + even.lon)) \div (nl * Cells))
    IN  IF SameZones(even, odd) /\ OnEarth(lat, lon)
        THEN {[lat |-> lat, lon |-> lon, nl |-> nl, of |-> even.of]} ELSE {}

\* decode_cpr_local: the place of one frame nearest to a reference.
Local(frame, ref) ==
    LET d    == Cell(frame.fmt) * Cells
        j    == ref.lat \div d + Rounded((ref.lat % d) - Cell(frame.fmt) * frame.lat, d)
        lat  == d * j + Cell(frame.fmt) * frame.lat
        nl   == LongitudeZones(frame.fmt, NL(lat))
        east == nl * ref.lon
        m    == east \div 36000
                + Rounded(Cells * (east % 36000) - 36000 * frame.lon, 36000 * Cells)
        raw  == Within180((36000 * (Cells * m + frame.lon)) \div (nl * Cells))
        lon  == IF raw < -18000 THEN raw + 36000 ELSE raw
        away == Abs(lon - ref.lon)
    IN  IF /\ OnEarth(lat, lon)
           /\ Abs(lat - ref.lat) * 2 <= 59 * Cells       \* 3 degrees
           /\ (IF away > 18000 THEN 36000 - away ELSE away) <= 300
        THEN {[lat |-> lat, lon |-> lon, nl |-> nl, of |-> frame.of]} ELSE {}

\* External: between two frames that are paired an aircraft moves less than half of
\* what tells two zones apart.  Zones of longitude are wider towards the poles.
SlowNorth(heading) ==
    (36000 - 7080 * (MaxApart * Abs(heading.lat))) * Cells > 36000 * 119
SlowEast(place, heading) ==
    LET zones == NL(Cell("even") * CellsNorth("even", place))
    IN  (36000 - 2 * (zones * (zones - 1)) * (MaxApart * Abs(heading.lon))) * Cells
        > 36000 * 119

\* An aircraft starts off the poles and is slow.  A message the channel has changed
\* is valid, as it is or after a repair, only if its position is intact: the checksum
\* tells apart what the channel does (all sets of up to four bits, for the generator
\* above).
ASSUME DecoderAssumption ==
    /\ Cells \in Nat /\ Cells >= 512 /\ MaxApart \in Nat
    /\ Starts \subseteq [lat : Int, lon : Int] /\ Headings \subseteq [lat : Int, lon : Int]
    /\ \A p \in Starts : Abs(p.lat) < 9000
    /\ \A h \in Headings : SlowNorth(h) /\ \A p \in Starts : SlowEast(p, h)
    /\ \A flipped \in Flips : \A bits \in {flipped, Repaired[flipped]} :
          Syndrome(bits) = {} => bits \cap (54..87) = {}

(***************************************************************************)
(* The service: one request at a time.                                     *)
(***************************************************************************)
\* is_valid: an all-call reply is accepted whatever its syndrome is.
Valid(df, flipped) == df = 11 \/ Syndrome(flipped) = {}

\* decode and decode_position for a DF 17 message that carries a position.  A
\* message accepted with flipped bits in its position carries another one.
Decoded(frame) ==
    IF ~Valid(17, frame.flipped) THEN {}
    ELSE IF frame.flipped \cap (54..87) = {} THEN {frame}
    ELSE {[frame EXCEPT !.lat = (@ + Cells \div 2) % Cells]}

\* A client connects; nothing bounds how long handle_client waits for bytes.
AcceptsClient ==
    /\ server.at = "select" /\ server.running
    /\ server' = [server EXCEPT !.at = "recv"]
    /\ UNCHANGED <<craft, metrics, frames, fixes>>

Served == server' = [server EXCEPT !.at = "select"]

\* GET /metrics: the counters, read between two messages.
ReportMetrics ==
    /\ server.at = "recv" /\ Served
    /\ UNCHANGED <<craft, metrics, frames, fixes>>

\* GET /health and /, an unknown path, or a client that leaves in silence.
OtherRequest ==
    /\ server.at = "recv" /\ Served
    /\ UNCHANGED <<craft, metrics, frames, fixes>>

\* POST /decode whose body is empty, or not in the packet that was read.
EmptyBody ==
    /\ server.at = "recv" /\ metrics.received < MaxReceived /\ Served
    /\ metrics' = [metrics EXCEPT !.received = @ + 1, !.decodeErrors = @ + 1]
    /\ UNCHANGED <<craft, frames, fixes>>

\* A body that is not the hexadecimal form of 7 or 14 bytes is not valid.
MalformedBody ==
    /\ server.at = "recv" /\ metrics.received < MaxReceived /\ Served
    /\ metrics' = [metrics EXCEPT !.received = @ + 1, !.crcFailures = @ + 1]
    /\ UNCHANGED <<craft, frames, fixes>>

\* POST /decode of the position the aircraft sends now, as the radio received
\* it or after the client had it repaired; the client keeps a valid answer.
DecodePosition ==
    /\ server.at = "recv" /\ metrics.received < MaxReceived /\ Served
    /\ \E fmt \in {"even", "odd"}, flipped \in Flips, repair \in BOOLEAN :
         LET bits   == IF repair THEN Repaired[flipped] ELSE flipped
             answer == Decoded([Encoded(fmt, craft.place) EXCEPT !.flipped = bits])
         IN  IF answer = {}
             THEN /\ metrics' = [metrics EXCEPT !.received = @ + 1, !.crcFailures = @ + 1]
                  /\ UNCHANGED frames
             ELSE /\ metrics' = [metrics EXCEPT !.received = @ + 1, !.decoded = @ + 1]
                  /\ frames' = [frames EXCEPT ![fmt] = answer]
    /\ UNCHANGED <<craft, fixes>>

\* The same for an identification, a velocity or an all-call reply.
DecodeOther ==
    /\ server.at = "recv" /\ metrics.received < MaxReceived /\ Served
    /\ \E df \in {11, 17}, flipped \in Flips :
         metrics' = IF Valid(df, flipped)
                    THEN [metrics EXCEPT !.received = @ + 1, !.decoded = @ + 1]
                    ELSE [metrics EXCEPT !.received = @ + 1, !.crcFailures = @ + 1]
    /\ UNCHANGED <<craft, frames, fixes>>

\* SIGTERM or SIGINT: the loop ends when it next looks at running_.
Stop ==
    /\ server.running
    /\ server' = [server EXCEPT !.running = FALSE]
    /\ UNCHANGED <<craft, metrics, frames, fixes>>
LoopEnds ==
    /\ server.at = "select" /\ ~server.running
    /\ server' = [server EXCEPT !.at = "closed"]
    /\ UNCHANGED <<craft, metrics, frames, fixes>>

(***************************************************************************)
(* The client and the aircraft.                                            *)
(***************************************************************************)
PairFrames ==
    /\ \E even \in frames["even"], odd \in frames["odd"] :
         /\ Abs(even.steps - odd.steps) <= MaxApart
         /\ fixes' = Global(even, odd)
    /\ UNCHANGED <<craft, server, metrics, frames>>

\* The known place that decode_cpr_local asks for: within 180 NM of the frame, so
\* less than three degrees away.
Near(frame, ref) ==
    /\ Abs(ref.lat * 600 - frame.of.lat * 59 * Cells) <= 299 * 59 * Cells
    /\ Abs(Within180((ref.lon - frame.of.lon) % 36000)) <= 299
FollowFrame ==
    /\ \E ref \in fixes, fmt \in {"even", "odd"} : \E frame \in frames[fmt] :
         Near(frame, ref) /\ fixes' = Local(frame, ref)
    /\ UNCHANGED <<craft, server, metrics, frames>>
Fly ==
    /\ craft.steps < MaxSteps
    /\ LET place == [lat |-> craft.place.lat + craft.heading.lat,
                     lon |-> Within180(craft.place.lon + craft.heading.lon)]
       IN  /\ Abs(place.lat) < 9000 /\ SlowEast(place, craft.heading)
           /\ craft' = [craft EXCEPT !.steps = @ + 1, !.place = place]
    /\ UNCHANGED <<server, metrics, frames, fixes>>

DecoderInit ==
    /\ craft \in [place : Starts, heading : Headings, steps : {0}]
    /\ server = [at |-> "select", running |-> TRUE]
    /\ metrics = [received |-> 0, decoded |-> 0, crcFailures |-> 0, decodeErrors |-> 0]
    /\ frames = [fmt \in {"even", "odd"} |-> {}]
    /\ fixes = {}
DecoderNext ==
    \/ AcceptsClient \/ ReportMetrics \/ OtherRequest
    \/ EmptyBody \/ MalformedBody \/ DecodePosition \/ DecodeOther
    \/ Stop \/ LoopEnds \/ PairFrames \/ FollowFrame \/ Fly

DecoderSpec == DecoderInit /\ [][DecoderNext]_decoderVars

\* A place computed from two frames of one aircraft, or from one frame and an
\* earlier place, is where the frame was sent, to one cell in each direction:
\* whichever of Flips the radio did, whichever zones the aircraft crosses
\* between the frames (the equator, the date line, a step of calc_nl).
FixesAreTrue ==
    \A f \in fixes :
        /\ Abs(f.lat * 600 - f.of.lat * 59 * Cells) <= 600 * 60
        /\ Abs(Within180((f.lon - f.of.lon) % 36000)) <= 36000 \div (f.nl * Cells) + 1
=============================================================================
