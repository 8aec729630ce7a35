------------------------ MODULE ModeSDecoder_proofs ------------------------
(***************************************************************************)
(* Proofs about ModeSDecoder, for every number of cells, place and speed   *)
(* of DecoderAssumption.  Rounding, quotients and the turns of the circle  *)
(* are reduced to integers without a quotient; what is left is linear once *)
(* a product of two variables has a name.                                  *)
(***************************************************************************)
EXTENDS ModeSDecoder, FiniteSetTheorems, TLAPS

-----------------------------------------------------------------------------
(* Quotients                                                               *)

\* A quotient and its rest.
LEMMA DivFacts ==
    ASSUME NEW a \in Int, NEW b \in Int, b > 0
    PROVE  \E d, m \in Int : /\ d = a \div b /\ m = a % b
                             /\ a = b * d + m /\ 0 <= m /\ m < b
<1>1. PICK d \in Int, m \in Int : d = a \div b /\ m = a % b
  OBVIOUS
<1>2. a = b * d + m /\ 0 <= m /\ m < b
  BY <1>1
<1>. QED BY <1>1, <1>2

\* There is one quotient.
LEMMA DivIs ==
    ASSUME NEW a \in Int, NEW b \in Int, b > 0, NEW q \in Int, b * q <= a, a < b * q + b
    PROVE  a \div b = q /\ a % b = a - b * q
<1>1. PICK d \in Int, m \in Int : /\ d = a \div b /\ m = a % b
                                  /\ a = b * d + m /\ 0 <= m /\ m < b
  BY DivFacts
<1>2. CASE d > q
  <2>1. b * d >= b * (q + 1)
    BY <1>2
  <2>. QED BY <1>1, <2>1
<1>3. CASE d < q
  <2>1. b * q >= b * (d + 1)
    BY <1>3
  <2>. QED BY <1>1, <2>1
<1>. QED BY <1>1, <1>2, <1>3

\* A multiple of the divisor leaves the rest as it is.
LEMMA DivOfSum ==
    ASSUME NEW a \in Int, NEW b \in Int, b > 0, NEW k \in Int
    PROVE  (a + b * k) % b = a % b /\ (a + b * k) \div b = a \div b + k
<1>1. PICK d \in Int, m \in Int : /\ d = a \div b /\ m = a % b
                                  /\ a = b * d + m /\ 0 <= m /\ m < b
  BY DivFacts
<1>2. a + b * k \in Int /\ d + k \in Int /\ b * (d + k) = b * d + b * k
  OBVIOUS
<1>3. b * (d + k) <= a + b * k /\ a + b * k < b * (d + k) + b
  BY <1>1, <1>2
<1>4. (a + b * k) \div b = d + k /\ (a + b * k) % b = (a + b * k) - b * (d + k)
  BY <1>2, <1>3, DivIs
<1>. QED BY <1>1, <1>2, <1>4

\* What rounding does, without a quotient.
LEMMA RoundedIs ==
    ASSUME NEW a \in Int, NEW b \in Int, b > 0
    PROVE  /\ Rounded(a, b) \in Int
           /\ \E r \in Int : r = Rounded(a, b) /\ 2 * (b * r) <= 2 * a + b /\ 2 * a < 2 * (b * r) + b
<1>1. 2 * a + b \in Int /\ 2 * b \in Int /\ 2 * b > 0
  OBVIOUS
<1>2. PICK r \in Int, m \in Int : /\ r = (2 * a + b) \div (2 * b)
                                  /\ 2 * a + b = (2 * b) * r + m /\ 0 <= m /\ m < 2 * b
  BY <1>1, DivFacts
<1>3. (2 * b) * r = 2 * (b * r)
  OBVIOUS
<1>. QED BY <1>2, <1>3 DEF Rounded

\* What is a whole number and less than a half is rounded to the whole number.
LEMMA RoundsTo ==
    ASSUME NEW a \in Int, NEW b \in Int, b > 0, NEW k \in Int, NEW c \in Int,
           a = b * k + c, -b <= 2 * c, 2 * c < b
    PROVE  Rounded(a, b) = k
<1>1. 2 * a + b \in Int /\ 2 * b \in Int /\ 2 * b > 0
  OBVIOUS
<1>2. (2 * b) * k = 2 * (b * k)
  OBVIOUS
<1>3. (2 * b) * k <= 2 * a + b /\ 2 * a + b < (2 * b) * k + 2 * b
  BY <1>2
<1>. QED BY <1>1, <1>3, DivIs DEF Rounded

-----------------------------------------------------------------------------
(* Zones and frames                                                        *)

\* Subsets of the first n numbers.
LEMMA NumbersUpTo ==
    ASSUME NEW n \in Nat
    PROVE  IsFiniteSet(1..n) /\ Cardinality(1..n) = n
BY FS_Interval

LEMMA FewOfNumbers ==
    ASSUME NEW n \in Nat, NEW S, S \subseteq 1..n
    PROVE  Cardinality(S) \in Nat /\ Cardinality(S) <= n
<1>1. IsFiniteSet(1..n) /\ Cardinality(1..n) = n
  BY NumbersUpTo
<1>. QED BY <1>1, FS_Subset, FS_CardinalityType

\* calc_nl: at a latitude there are 1 to 59 zones of longitude.
LEMMA ZonesOfLongitude ==
    ASSUME NEW lat PROVE NL(lat) \in 1..59
<1>. DEFINE passed == {i \in 1..58 : Transitions[i] * 59 * Cells <= Abs(lat) * 600}
<1>1. Cardinality(passed) \in Nat /\ Cardinality(passed) <= 58
  <2>1. PICK n \in Nat : n = 58
    OBVIOUS
  <2>2. passed \subseteq 1..n
    BY <2>1
  <2>. HIDE DEF passed
  <2>3. Cardinality(passed) \in Nat /\ Cardinality(passed) <= n
    BY <2>2, FewOfNumbers
  <2>. QED BY <2>1, <2>3
<1>2. NL(lat) = 59 - Cardinality(passed)
  BY DEF NL
<1>. HIDE DEF passed
<1>. QED BY <1>1, <1>2

\* What the transponder rounds to is within half a cell.
Rounds(c, a) == -18000 <= 36000 * c - Cells * a /\ 36000 * c - Cells * a <= 18000

\* The transponder's rounding, in two parts that stay small.
InParts(a) == Cells * (a \div 36000) + Rounded(Cells * (a % 36000), 36000)

LEMMA RoundedInParts ==
    ASSUME NEW a \in Int, Cells \in Int
    PROVE  InParts(a) \in Int /\ Rounds(InParts(a), a)
<1>1. PICK d \in Int, m \in Int : /\ d = a \div 36000 /\ m = a % 36000 /\ a = 36000 * d + m
  BY DivFacts
<1>2. PICK part \in Int : part = Cells * m
  BY <1>1
<1>3. PICK r \in Int : /\ r = Rounded(part, 36000)
                       /\ 72000 * r <= 2 * part + 36000 /\ 2 * part < 72000 * r + 36000
  BY DEF Rounded
<1>4. InParts(a) = Cells * d + r
  BY <1>1, <1>2, <1>3 DEF InParts
<1>5. Cells * a = 36000 * (Cells * d) + Cells * m
  BY <1>1
<1>6. Cells * d \in Int
  BY <1>1
<1>. QED BY <1>2, <1>3, <1>4, <1>5, <1>6 DEF Rounds

\* The frame of a place, by the cells of the circle that it stands for.
InRow(frame, c, lat) == frame.lat = c % Cells /\ Rounds(c, Zones(frame.fmt) * lat)
InColumn(frame, c, zones, lon) == frame.lon = c % Cells /\ Rounds(c, zones * lon)
IsEncoding(frame, lat, lon) ==
    \E north, east \in Int :
        /\ north = InParts(Zones(frame.fmt) * lat) /\ InRow(frame, north, lat)
        /\ InColumn(frame, east, LongitudeZones(frame.fmt, NL(Cell(frame.fmt) * north)), lon)

\* The same of an odd frame.
LEMMA LongitudeZonesType ==
    ASSUME NEW fmt, NEW lat PROVE LongitudeZones(fmt, NL(lat)) \in 1..59
BY ZonesOfLongitude DEF LongitudeZones, Greater

\* A frame does not tell how often one has gone around.
LEMMA SameMeridian ==
    ASSUME NEW frame, NEW lat \in Int, NEW lon \in Int, IsEncoding(frame, lat, lon), NEW w \in Int,
           Cells \in Int, Cells > 0
    PROVE  IsEncoding(frame, lat, lon + 36000 * w)
<1>1. PICK north \in Int, east \in Int :
        /\ north = InParts(Zones(frame.fmt) * lat) /\ InRow(frame, north, lat)
        /\ InColumn(frame, east, LongitudeZones(frame.fmt, NL(Cell(frame.fmt) * north)), lon)
  BY DEF IsEncoding
<1>2. PICK zones \in Int : zones = LongitudeZones(frame.fmt, NL(Cell(frame.fmt) * north))
  BY LongitudeZonesType
<1>3. PICK more \in Int : more = east + Cells * (zones * w)
  OBVIOUS
<1>4. frame.lon = more % Cells
  <2>1. PICK k \in Int : k = zones * w
    BY <1>2
  <2>2. (east + Cells * k) % Cells = east % Cells
    BY DivOfSum
  <2>. QED BY <1>1, <1>3, <2>1, <2>2 DEF InColumn
<1>5. 36000 * more - Cells * (zones * (lon + 36000 * w)) = 36000 * east - Cells * (zones * lon)
  BY <1>3
<1>6. Rounds(more, zones * (lon + 36000 * w))
  BY <1>1, <1>2, <1>5 DEF Rounds, InColumn
<1>7. InColumn(frame, more, LongitudeZones(frame.fmt, NL(Cell(frame.fmt) * north)), lon + 36000 * w)
  BY <1>2, <1>4, <1>6 DEF InColumn
<1>. QED BY <1>1, <1>7 DEF IsEncoding

\* The transponder's frame is the encoding of its place.
LEMMA EncodedIs ==
    ASSUME NEW fmt \in {"even", "odd"}, NEW place, place.lat \in Int, place.lon \in Int,
           Cells \in Int, Cells > 0,
           NEW frame, frame = Encoded(fmt, place)
    PROVE  /\ frame = [fmt |-> fmt, of |-> place, steps |-> craft.steps, flipped |-> {},
                       lat |-> frame.lat, lon |-> frame.lon]
           /\ IsEncoding(frame, place.lat, place.lon)
<1>1. Zones(fmt) \in Int
  BY DEF Zones
<1>2. PICK along \in Int : along = Zones(fmt) * place.lat
  BY <1>1
<1>3. PICK north : north = InParts(along)
  OBVIOUS
<1>4. north \in Int /\ Rounds(north, along)
  BY <1>3, RoundedInParts
<1>5. PICK zones \in Int : zones = LongitudeZones(fmt, NL(Cell(fmt) * north))
  BY LongitudeZonesType
<1>6. PICK round \in Int : round = zones * place.lon
  BY <1>5
<1>7. PICK d \in Int, m \in Int : d = round \div 36000 /\ m = round % 36000 /\ round = 36000 * d + m
  BY DivFacts
<1>8. PICK east : east = InParts(round)
  OBVIOUS
<1>9. east \in Int /\ Rounds(east, round)
  BY <1>8, RoundedInParts
<1>10. frame = [fmt |-> fmt, of |-> place, steps |-> craft.steps, flipped |-> {},
                lat |-> north % Cells, lon |-> Rounded(Cells * (round % 36000), 36000) % Cells]
  BY <1>2, <1>3, <1>5, <1>6 DEF Encoded, CellsNorth, InParts
<1>11. east % Cells = Rounded(Cells * (round % 36000), 36000) % Cells
  <2>1. PICK part \in Int : part = Cells * m
    BY <1>7
  <2>2. PICK r \in Int : r = Rounded(part, 36000)
    BY DEF Rounded
  <2>3. (r + Cells * d) % Cells = r % Cells
    <3>1. PICK k \in Int : k = d
      BY <1>7
    <3>2. (r + Cells * k) % Cells = r % Cells
      BY DivOfSum
    <3>. QED BY <3>1, <3>2
  <2>4. east = r + Cells * d
    BY <1>7, <1>8, <2>1, <2>2 DEF InParts
  <2>5. Rounded(Cells * (round % 36000), 36000) = r
    BY <1>7, <2>1, <2>2
  <2>. QED BY <2>3, <2>4, <2>5
<1>12. IsEncoding(frame, place.lat, place.lon)
  <2>1. frame.fmt = fmt /\ frame.lat = north % Cells /\ frame.lon = east % Cells
    BY <1>10, <1>11
  <2>2. InRow(frame, north, place.lat)
    BY <1>2, <1>4, <2>1 DEF InRow
  <2>3. InColumn(frame, east, LongitudeZones(frame.fmt, NL(Cell(frame.fmt) * north)), place.lon)
    BY <1>5, <1>6, <1>9, <2>1 DEF InColumn
  <2>4. north = InParts(Zones(frame.fmt) * place.lat)
    BY <1>2, <1>3, <2>1
  <2>. QED BY <1>4, <1>9, <2>2, <2>3, <2>4 DEF IsEncoding
<1>. QED BY <1>10, <1>12

-----------------------------------------------------------------------------
(* Two frames                                                              *)

\* Between them the aircraft has moved so little that zones are told apart.
Close(p, q, d) == -d <= p - q /\ p - q <= d
Slow(d) == d \in Int /\ d >= 0 /\ (36000 - 7080 * d) * Cells > 36000 * 119
SlowAt(d, n) ==
    d \in Int /\ d >= 0 /\ (36000 - 2 * (n * (n - 1)) * d) * Cells > 36000 * 119

\* The zone of a number of cells, and what is left of it.
InZone(north, zone, rest) ==
    /\ rest = north % Cells /\ north = Cells * zone + rest
    /\ 0 <= rest /\ rest < Cells /\ -15 <= zone /\ zone < 15

LEMMA ZoneOf ==
    ASSUME Cells \in Int, Cells > 0, NEW north \in Int,
           -(15 * Cells) <= north, north < 15 * Cells
    PROVE  \E zone, rest \in Int : InZone(north, zone, rest)
<1>1. PICK zone \in Int, rest \in Int : /\ zone = north \div Cells /\ rest = north % Cells
                                        /\ north = Cells * zone + rest /\ 0 <= rest /\ rest < Cells
  BY DivFacts
<1>2. ~(zone >= 15)
  <2>1. SUFFICES ASSUME zone >= 15 PROVE FALSE
    OBVIOUS
  <2>2. Cells * zone >= Cells * 15
    BY <2>1
  <2>. QED BY <1>1, <2>2
<1>3. ~(zone <= -16)
  <2>1. SUFFICES ASSUME zone <= -16 PROVE FALSE
    OBVIOUS
  <2>2. Cells * zone <= Cells * (-16)
    BY <2>1
  <2>. QED BY <1>1, <2>2
<1>. QED BY <1>1, <1>2, <1>3 DEF InZone

\* decode_cpr_global, step 2: both latitudes, without an error of the zone.
LEMMA LatitudesFrom ==
    ASSUME Cells \in Int, Cells >= 512, NEW d, Slow(d),
           NEW even, NEW odd, NEW north \in Int, NEW south \in Int,
           even.fmt = "even", odd.fmt = "odd",
           NEW p \in Int, NEW q \in Int, -9000 < p, p < 9000, -9000 < q, q < 9000,
           Close(p, q, d),
           InRow(even, north, p), InRow(odd, south, q)
    PROVE  LatitudeFrom(even, even, odd) = 59 * north /\ LatitudeFrom(odd, even, odd) = 60 * south
<1>1. PICK A \in Int, B \in Int, K \in Int : A = Cells * p /\ B = Cells * q /\ K = Cells * d
  BY DEF Slow
<1>2. /\ -18000 <= 36000 * north - 60 * A /\ 36000 * north - 60 * A <= 18000
      /\ -18000 <= 36000 * south - 59 * B /\ 36000 * south - 59 * B <= 18000
  <2>1. Cells * (60 * p) = 60 * A /\ Cells * (59 * q) = 59 * B
    BY <1>1
  <2>. QED BY <2>1 DEF Rounds, InRow, Zones
<1>3. /\ -(8999 * Cells) <= A /\ A <= 8999 * Cells /\ -(8999 * Cells) <= B /\ B <= 8999 * Cells
  <2>1. Cells * p <= Cells * 8999 /\ Cells * p >= Cells * (-8999)
    OBVIOUS
  <2>2. Cells * q <= Cells * 8999 /\ Cells * q >= Cells * (-8999)
    OBVIOUS
  <2>. QED BY <1>1, <2>1, <2>2
<1>4. -K <= A - B /\ A - B <= K
  <2>1. Cells * (p - q) = A - B /\ Cells * (-d) = -K
    BY <1>1 DEF Slow
  <2>2. Cells * (p - q) <= Cells * d /\ Cells * (p - q) >= Cells * (-d)
    BY DEF Slow, Close
  <2>. QED BY <1>1, <2>1, <2>2
<1>5. 36000 * Cells - 7080 * K > 36000 * 119
  <2>1. (36000 - 7080 * d) * Cells = 36000 * Cells - 7080 * K
    BY <1>1 DEF Slow
  <2>. QED BY <2>1 DEF Slow
<1>6. /\ -(15 * Cells) <= north /\ north < 15 * Cells
      /\ -(15 * Cells) <= south /\ south < 15 * Cells /\ -3540 * Cells <= 240 * south
  BY <1>2, <1>3
<1>7. PICK ze \in Int, e \in Int : InZone(north, ze, e)
  BY <1>6, ZoneOf
<1>8. PICK zo \in Int, o \in Int : InZone(south, zo, o)
  BY <1>6, ZoneOf
<1>9. /\ ze \in Int /\ e \in Int /\ e = north % Cells /\ north = Cells * ze + e
      /\ 0 <= e /\ e < Cells /\ -15 <= ze /\ ze < 15
  BY <1>7 DEF InZone
<1>10. /\ zo \in Int /\ o \in Int /\ o = south % Cells /\ south = Cells * zo + o
      /\ 0 <= o /\ o < Cells /\ -15 <= zo /\ zo < 15
  BY <1>8 DEF InZone
<1>. DEFINE j == 60 * zo - 59 * ze
<1>11. j \in Int /\ j = 60 * zo - 59 * ze
  <2>1. ze \in Int /\ zo \in Int
    BY <1>9, <1>10
  <2>. QED BY <2>1
<1>. HIDE DEF j
<1>12. Rounded(59 * e - 60 * o, Cells) = j
  <2>1. e \in Int /\ o \in Int /\ ze \in Int /\ zo \in Int
    BY <1>9, <1>10
  <2>. DEFINE a == 59 * e - 60 * o
              c == 59 * north - 60 * south
  <2>2. a \in Int /\ c \in Int
    BY <2>1
  <2>3. a = Cells * j + c
    <3>1. PICK F \in Int, G \in Int : F = Cells * ze /\ G = Cells * zo
      BY <2>1
    <3>2. Cells * j = 60 * G - 59 * F
      BY <2>1, <1>11, <3>1
    <3>3. north = F + e /\ south = G + o
      BY <1>9, <1>10, <3>1
    <3>. QED BY <2>1, <3>1, <3>2, <3>3
  <2>4. -Cells <= 2 * c /\ 2 * c < Cells
    BY <1>2, <1>4, <1>5, <2>2
  <2>5. Rounded(a, Cells) = j
    <3>. HIDE DEF a, c
    <3>. QED BY <1>11, <2>2, <2>3, <2>4, RoundsTo
  <2>. QED BY <2>5
<1>13. /\ j % 60 = (IF ze >= 0 THEN ze ELSE ze + 60)
       /\ j % 59 = (IF zo >= 0 THEN zo ELSE zo + 59)
  BY <1>9, <1>10, <1>11
<1>14. South(59 * (Cells * (j % 60) + e)) = 59 * north
  <2>1. CASE ze >= 0
    <3>1. j % 60 = ze
      BY <1>13, <2>1
    <3>2. Cells * (j % 60) + e = north
      <4>1. north = Cells * ze + e
        BY <1>9
      <4>. QED BY <3>1, <4>1
    <3>3. ~(4 * (59 * north) >= 3 * (60 * 59 * Cells))
      BY <1>6
    <3>. QED BY <3>3, <3>2 DEF South, Circle
  <2>2. CASE ~(ze >= 0)
    <3>1. Cells * (j % 60) + e = north + 60 * Cells
      BY <1>9, <1>13, <2>2
    <3>2. 4 * (59 * (north + 60 * Cells)) >= 3 * (60 * 59 * Cells)
      BY <1>6
    <3>3. 59 * (north + 60 * Cells) - 60 * 59 * Cells = 59 * north
      OBVIOUS
    <3>. QED BY <3>1, <3>2, <3>3 DEF South, Circle
  <2>. QED BY <2>1, <2>2
<1>15. South(60 * (Cells * (j % 59) + o)) = 60 * south
  <2>1. CASE zo >= 0
    <3>1. j % 59 = zo
      BY <1>13, <2>1
    <3>2. Cells * (j % 59) + o = south
      <4>1. south = Cells * zo + o
        BY <1>10
      <4>. QED BY <3>1, <4>1
    <3>3. ~(4 * (60 * south) >= 3 * (60 * 59 * Cells))
      BY <1>6
    <3>. QED BY <3>3, <3>2 DEF South, Circle
  <2>2. CASE ~(zo >= 0)
    <3>1. Cells * (j % 59) + o = south + 59 * Cells
      BY <1>10, <1>13, <2>2
    <3>2. 4 * (60 * (south + 59 * Cells)) >= 3 * (60 * 59 * Cells)
      BY <1>6
    <3>3. 60 * (south + 59 * Cells) - 60 * 59 * Cells = 60 * south
      OBVIOUS
    <3>. QED BY <3>1, <3>2, <3>3 DEF South, Circle
  <2>. QED BY <2>1, <2>2
<1>16. even.lat = e /\ odd.lat = o
  BY <1>9, <1>10 DEF InRow
<1>17. /\ LatitudeFrom(even, even, odd) = South(59 * (Cells * (j % 60) + e))
       /\ LatitudeFrom(odd, even, odd) = South(60 * (Cells * (j % 59) + o))
  BY <1>12, <1>16 DEF LatitudeFrom, Cell, Zones
<1>. QED BY <1>14, <1>15, <1>17

\* Equal but for multiples of n.
Congruent(a, b, n) == \E v \in Int : a = b + n * v

LEMMA CongruentBy ==
    ASSUME NEW a, NEW b \in Int, NEW n \in Int, NEW v \in Int, a = b + n * v
    PROVE  Congruent(a, b, n)
BY DEF Congruent

\* The zone of longitude that two frames tell, for one number of zones.
LEMMA ZoneOfPair ==
    ASSUME Cells \in Int, Cells >= 512, NEW n \in 1..59, NEW d, SlowAt(d, n),
           NEW other, other = (IF n = 1 THEN 1 ELSE n - 1),
           NEW even, NEW odd, NEW east \in Int, NEW west \in Int, NEW p \in Int, NEW q \in Int,
           Close(p, q, d),
           InColumn(even, east, n, p), InColumn(odd, west, other, q)
    PROVE  Congruent(
             Cells * (Rounded(even.lon * (n - 1) - odd.lon * n, Cells) % n) + even.lon,
             east, n * Cells)
<1>1. n \in Int /\ 1 <= n /\ n <= 59
  OBVIOUS
<1>2. PICK k \in Int, x \in Int : k = east \div Cells /\ x = east % Cells /\ east = Cells * k + x
  BY DivFacts
<1>3. PICK l \in Int, y \in Int : l = west \div Cells /\ y = west % Cells /\ west = Cells * l + y
  BY DivFacts
<1>4. PICK m \in Int : m = Rounded(x * (n - 1) - y * n, Cells)
  <2>1. x * (n - 1) - y * n \in Int
    BY <1>1, <1>2, <1>3
  <2>2. Rounded(x * (n - 1) - y * n, Cells) \in Int
    BY <2>1, RoundedIs
  <2>. QED BY <2>2
<1>5. Congruent(m % n, k, n)
  <2>1. CASE n = 1
    <3>1. m % n = 0
      BY <1>4, <2>1
    <3>2. -k \in Int /\ m % n = k + n * (-k)
      BY <1>2, <2>1, <3>1
    <3>. QED BY <1>1, <1>2, <3>2, CongruentBy
  <2>2. CASE n # 1
    <3>. DEFINE j == l * n - k * (n - 1)
                a == x * (n - 1) - y * n
                c == east * (n - 1) - west * n
    <3>1. k \in Int /\ l \in Int /\ x \in Int /\ y \in Int
      BY <1>2, <1>3
    <3>2. j \in Int /\ a \in Int /\ c \in Int
      BY <1>1, <3>1
    <3>3. a = Cells * j + c
      <4>1. east = Cells * k + x /\ west = Cells * l + y
        BY <1>2, <1>3
      <4>2. x = east - Cells * k /\ y = west - Cells * l
        BY <3>1, <4>1
      <4>3. (east - Cells * k) * (n - 1) - (west - Cells * l) * n
            = Cells * (l * n - k * (n - 1)) + (east * (n - 1) - west * n)
        BY <1>1, <3>1
      <4>. QED BY <4>2, <4>3
    <3>4. -Cells <= 2 * c /\ 2 * c < Cells
      <4>1. PICK P \in Int, Q \in Int, K \in Int : P = Cells * p /\ Q = Cells * q /\ K = Cells * d
        BY DEF SlowAt
      <4>2. -K <= P - Q /\ P - Q <= K /\ K >= 0
        <5>1. Cells * (p - q) = P - Q /\ Cells * (-d) = -K
          BY <4>1 DEF SlowAt
        <5>2. Cells * (p - q) <= Cells * d /\ Cells * (p - q) >= Cells * (-d) /\ Cells * d >= 0
          BY DEF SlowAt, Close
        <5>. QED BY <4>1, <5>1, <5>2
      <4>. DEFINE r == 36000 * east - n * P
                  s == 36000 * west - (n - 1) * Q
                  D == n * (n - 1)
                  G == P - Q
      <4>4. r \in Int /\ s \in Int /\ -18000 <= r /\ r <= 18000 /\ -18000 <= s /\ s <= 18000
        <5>1. Cells * (n * p) = n * P /\ Cells * (other * q) = (n - 1) * Q
          BY <1>1, <2>2, <4>1
        <5>. QED BY <1>1, <4>1, <5>1 DEF Rounds, InColumn
      <4>5. 36000 * c = D * G + (n - 1) * r - n * s
        BY <1>1, <4>1
      <4>6. D \in Int /\ 0 <= D /\ G \in Int
        <5>1. 0 <= n * (n - 1)
          BY <1>1
        <5>. QED BY <1>1, <4>1, <5>1
      <4>3. 36000 * Cells - 2 * (D * K) > 36000 * 119
        <5>1. (36000 - 2 * D * d) * Cells > 36000 * 119 /\ d \in Int
          BY DEF SlowAt
        <5>. HIDE DEF D
        <5>2. (36000 - 2 * D * d) * Cells = 36000 * Cells - 2 * (D * (Cells * d))
          BY <4>6, <5>1
        <5>. QED BY <4>1, <5>1, <5>2
      <4>. HIDE DEF c, r, s, D, G
      <4>7. -(D * K) <= D * G /\ D * G <= D * K
        <5>1. -K <= G /\ G <= K
          BY <4>2 DEF G
        <5>2. D * G <= D * K /\ D * (-K) <= D * G
          BY <4>1, <4>2, <4>6, <5>1
        <5>3. D * (-K) = -(D * K)
          BY <4>1, <4>6
        <5>. QED BY <5>2, <5>3
      <4>8. /\ -(58 * 18000) <= (n - 1) * r /\ (n - 1) * r <= 58 * 18000
            /\ -(59 * 18000) <= n * s /\ n * s <= 59 * 18000
        <5>1. (n - 1) * r <= (n - 1) * 18000 /\ (n - 1) * (-18000) <= (n - 1) * r
          BY <1>1, <4>4
        <5>2. n * s <= n * 18000 /\ n * (-18000) <= n * s
          BY <1>1, <4>4
        <5>. QED BY <1>1, <4>4, <5>1, <5>2
      <4>9. D * G \in Int /\ D * K \in Int /\ (n - 1) * r \in Int /\ n * s \in Int /\ c \in Int
        BY <1>1, <3>2, <4>1, <4>4, <4>6
      <4>. QED BY <4>1, <4>3, <4>5, <4>7, <4>8, <4>9
    <3>5. m = j
      <4>1. m = Rounded(a, Cells)
        BY <1>4
      <4>. HIDE DEF a, j, c
      <4>. QED BY <3>2, <3>3, <3>4, <4>1, RoundsTo
    <3>. DEFINE g == l - k
    <3>6. g \in Int /\ j = k + n * g
      BY <1>1, <3>1
    <3>7. Congruent(j % n, j, n)
      <4>. HIDE DEF j
      <4>1. PICK b \in Int, e \in Int : b = j \div n /\ e = j % n /\ j = n * b + e
        BY <1>1, <3>2, DivFacts
      <4>2. -b \in Int /\ j % n = j + n * (-b)
        BY <1>1, <3>2, <4>1
      <4>. QED BY <1>1, <3>2, <4>2, CongruentBy
    <3>. HIDE DEF j, g
    <3>8. PICK u \in Int : j % n = j + n * u
      BY <3>7 DEF Congruent
    <3>9. g + u \in Int /\ m % n = k + n * (g + u)
      BY <1>1, <3>1, <3>5, <3>6, <3>8
    <3>. QED BY <1>1, <3>1, <3>9, CongruentBy
  <2>. QED BY <2>1, <2>2
<1>6. PICK v \in Int : m % n = k + n * v
  BY <1>5 DEF Congruent
<1>7. Cells * (m % n) + x = east + (n * Cells) * v
  <2>1. Cells * (k + n * v) = Cells * k + (n * Cells) * v
    <3>1. k \in Int /\ v \in Int
      BY <1>2, <1>6
    <3>. QED BY <1>1, <3>1
  <2>2. m % n = k + n * v
    BY <1>6
  <2>3. east = Cells * k + x
    BY <1>2
  <2>. QED BY <2>1, <2>2, <2>3
<1>8. n * Cells \in Int
  BY <1>1
<1>9. Congruent(Cells * (m % n) + x, east, n * Cells)
  BY <1>6, <1>7, <1>8, CongruentBy
<1>10. even.lon = x /\ odd.lon = y
  BY <1>2, <1>3 DEF InColumn
<1>. QED BY <1>4, <1>9, <1>10

-----------------------------------------------------------------------------
(* Longitudes                                                              *)

\* A longitude is that of a place, to one cell.
Eastward(lon, q, n) == Abs(Within180((lon - q) % 36000)) <= 36000 \div (n * Cells) + 1

\* The same of whole turns, a part of a cell s, and a cell of t.
Turned(lon, q, s) == \E w \in Int : lon = q + 36000 * w + s
CellOf(n) == 36000 \div (n * Cells)
SameAngle(a, b) == a \in {b, b - 36000, b + 36000}
Counted180(c, n) == (36000 * c) \div (n * Cells)

\* How many hundredths of a degree a cell has at most.
LEMMA CellsOfCircle ==
    ASSUME Cells \in Int, Cells >= 512, NEW n \in 1..59
    PROVE  \E b, t \in Int : /\ b = n * Cells /\ t = 36000 \div (n * Cells) /\ b >= 512
                             /\ b * t <= 36000 /\ 36000 < b * t + b /\ 0 <= t /\ t <= 70
<1>1. n \in Int /\ n >= 1
  OBVIOUS
<1>2. PICK b \in Int : b = n * Cells
  BY <1>1
<1>3. b >= 512
  <2>1. n * Cells >= 1 * Cells
    BY <1>1
  <2>. QED BY <1>2, <2>1
<1>4. PICK a \in Int : a = 36000
  OBVIOUS
<1>5. PICK t \in Int, m \in Int : t = a \div b /\ m = a % b /\ a = b * t + m /\ 0 <= m /\ m < b
  BY <1>3, DivFacts
<1>6. 0 <= t
  <2>1. SUFFICES ASSUME t <= -1 PROVE FALSE
    BY <1>5
  <2>2. b * t <= b * (-1)
    BY <1>3, <1>5, <2>1
  <2>. QED BY <1>4, <1>5, <2>2
<1>7. t <= 70
  <2>1. SUFFICES ASSUME t >= 71 PROVE FALSE
    BY <1>5
  <2>2. b * t >= b * 71
    BY <1>3, <1>5, <2>1
  <2>. QED BY <1>3, <1>4, <1>5, <2>2
<1>8. b * t <= 36000 /\ 36000 < b * t + b
  BY <1>4, <1>5
<1>9. t = 36000 \div (n * Cells)
  BY <1>2, <1>4, <1>5
<1>. QED BY <1>2, <1>3, <1>6, <1>7, <1>8, <1>9

\* Not more than a cell away, counted around the circle.
LEMMA EastwardBy ==
    ASSUME Cells \in Int, Cells >= 512, NEW n \in 1..59, NEW lon \in Int, NEW q \in Int,
           NEW s \in Int, Turned(lon, q, s),
           NEW t \in Int, t = CellOf(n), -(t + 1) <= s, s <= t + 1, t <= 70
    PROVE  Eastward(lon, q, n)
<1>1. PICK w \in Int : lon = q + 36000 * w + s
  BY DEF Turned
<1>2. (lon - q) % 36000 = IF s >= 0 THEN s ELSE s + 36000
  BY <1>1
<1>3. Abs(Within180((lon - q) % 36000)) <= t + 1
  BY <1>2 DEF Abs, Within180
<1>. QED BY <1>3 DEF Eastward, CellOf

\* The place of a number of cells, whichever turn of the circle it is counted in.
LEMMA PlaceOf ==
    ASSUME Cells \in Int, Cells >= 512, NEW n \in 1..59, NEW east \in Int, NEW q \in Int,
           NEW frame, InColumn(frame, east, n, q), NEW c \in Int, Congruent(c, east, n * Cells),
           NEW lon, SameAngle(lon, Counted180(c, n))
    PROVE  Counted180(c, n) \in Int /\ lon \in Int /\ Eastward(lon, q, n)
<1>1. n \in Int /\ n >= 1
  OBVIOUS
<1>2. PICK b \in Int, t \in Int : /\ b = n * Cells /\ t = 36000 \div (n * Cells) /\ b >= 512
                                  /\ b * t <= 36000 /\ 36000 < b * t + b /\ 0 <= t /\ t <= 70
  BY CellsOfCircle
<1>3. PICK v \in Int : c = east + b * v
  <2>1. Congruent(c, east, b)
    BY <1>2
  <2>. QED BY <2>1 DEF Congruent
<1>. DEFINE r == 36000 * east - b * q
<1>4. r \in Int /\ -18000 <= r /\ r <= 18000
  <2>1. Cells * (n * q) = b * q
    BY <1>1, <1>2
  <2>. QED BY <1>2, <2>1 DEF Rounds, InColumn
<1>5. 36000 * c = b * (q + 36000 * v) + r
  <2>1. b * (q + 36000 * v) = b * q + 36000 * (b * v)
    BY <1>2, <1>3
  <2>2. 36000 * c = 36000 * east + 36000 * (b * v)
    BY <1>3
  <2>. QED BY <2>1, <2>2
<1>. HIDE DEF r
<1>6. PICK s \in Int, m \in Int : s = r \div b /\ m = r % b /\ r = b * s + m /\ 0 <= m /\ m < b
  <2>1. b \in Int /\ b > 0 /\ r \in Int
    BY <1>2, <1>4
  <2>. QED BY <2>1, DivFacts
<1>7. b \in Int /\ t \in Int /\ s \in Int /\ m \in Int /\ v \in Int /\ r \in Int /\ b >= 512
  BY <1>2, <1>3, <1>4, <1>6
<1>8. s <= t + 1
  <2>1. SUFFICES ASSUME s >= t + 2 PROVE FALSE
    BY <1>7
  <2>2. b * s >= b * (t + 2)
    BY <1>7, <2>1
  <2>3. b * (t + 2) = b * t + 2 * b
    BY <1>7
  <2>. QED BY <1>2, <1>4, <1>6, <2>2, <2>3
<1>9. -(t + 1) <= s
  <2>1. SUFFICES ASSUME s <= -(t + 2) PROVE FALSE
    BY <1>7
  <2>2. b * s <= b * (-(t + 2))
    BY <1>7, <2>1
  <2>3. b * (-(t + 2)) = -(b * t) - 2 * b
    BY <1>7
  <2>. QED BY <1>2, <1>4, <1>6, <2>2, <2>3
<1>10. (36000 * c) \div b = s + (q + 36000 * v)
  <2>. DEFINE k == q + 36000 * v
              a == 36000 * c
  <2>1. k \in Int /\ a \in Int /\ a = r + b * k
    BY <1>3, <1>4, <1>5
  <2>. HIDE DEF k, a
  <2>2. (r + b * k) \div b = r \div b + k
    BY <1>7, <2>1, DivOfSum
  <2>3. a \div b = s + k
    BY <1>6, <2>1, <2>2
  <2>. QED BY <2>3 DEF k, a
<1>11. Counted180(c, n) = q + 36000 * v + s
  BY <1>2, <1>3, <1>6, <1>10 DEF Counted180
<1>12. Turned(lon, q, s)
  <2>1. PICK raw \in Int : raw = Counted180(c, n)
    BY <1>7, <1>11
  <2>2. lon \in {raw, raw - 36000, raw + 36000}
    BY <2>1 DEF SameAngle
  <2>3. CASE lon = raw
    BY <1>7, <1>11, <2>1, <2>3 DEF Turned
  <2>4. CASE lon = raw - 36000
    <3>1. v - 1 \in Int /\ lon = q + 36000 * (v - 1) + s
      BY <1>7, <1>11, <2>1, <2>4
    <3>. QED BY <3>1 DEF Turned
  <2>5. CASE lon = raw + 36000
    <3>1. v + 1 \in Int /\ lon = q + 36000 * (v + 1) + s
      BY <1>7, <1>11, <2>1, <2>5
    <3>. QED BY <3>1 DEF Turned
  <2>. QED BY <2>2, <2>3, <2>4, <2>5
<1>13. Counted180(c, n) \in Int /\ lon \in Int
  BY <1>7, <1>11 DEF SameAngle
<1>14. t = CellOf(n) /\ t <= 70
  BY <1>2 DEF CellOf
<1>15. Eastward(lon, q, n)
  BY <1>8, <1>9, <1>12, <1>13, <1>7, <1>14, EastwardBy
<1>. QED BY <1>13, <1>15

\* A place off the poles, a frame of a place, a place that the client may hold.
IsPlace(p) == p.lat \in Int /\ -9000 < p.lat /\ p.lat < 9000 /\ p.lon \in Int
IsFrame(f, fmt) == f.fmt = fmt /\ IsPlace(f.of) /\ IsEncoding(f, f.of.lat, f.of.lon)
IsFix(f) ==
    /\ f.lat \in Int /\ f.lon \in Int
    /\ Abs(f.lat * 600 - f.of.lat * 59 * Cells) <= 600 * 60
    /\ Eastward(f.lon, f.of.lon, f.nl)

\* The latitude of a frame's cells is that of the place it was sent from.
Northward(lat, p) == lat \in Int /\ Abs(lat * 600 - p * 59 * Cells) <= 600 * 60

LEMMA NorthwardEven ==
    ASSUME Cells \in Int, NEW north \in Int, NEW p \in Int, NEW frame, frame.fmt = "even", InRow(frame, north, p)
    PROVE  Northward(59 * north, p)
<1>1. PICK A \in Int : A = Cells * p
  OBVIOUS
<1>2. Cells * (60 * p) = 60 * A /\ p * 59 * Cells = 59 * A
  BY <1>1
<1>3. -18000 <= 36000 * north - 60 * A /\ 36000 * north - 60 * A <= 18000
  BY <1>2 DEF Rounds, InRow, Zones
<1>. QED BY <1>1, <1>2, <1>3 DEF Northward, Abs

LEMMA NorthwardOdd ==
    ASSUME Cells \in Int, NEW south \in Int, NEW p \in Int, NEW frame, frame.fmt = "odd", InRow(frame, south, p)
    PROVE  Northward(60 * south, p)
<1>1. PICK A \in Int : A = Cells * p
  OBVIOUS
<1>2. Cells * (59 * p) = 59 * A /\ p * 59 * Cells = 59 * A
  BY <1>1
<1>3. -18000 <= 36000 * south - 59 * A /\ 36000 * south - 59 * A <= 18000
  BY <1>2 DEF Rounds, InRow, Zones
<1>. QED BY <1>1, <1>2, <1>3 DEF Northward, Abs

\* The zones of longitude of an even frame that is sent from a place.
ZonesAt(place) == NL(59 * InParts(60 * place.lat))

\* decode_cpr_global: whatever it returns is the place of the even frame.
LEMMA GlobalIsTrue ==
    ASSUME Cells \in Int, Cells >= 512, NEW d, Slow(d), NEW e, NEW zones, SlowAt(e, zones),
           NEW even, IsFrame(even, "even"), zones = ZonesAt(even.of),
           NEW odd, IsFrame(odd, "odd"),
           Close(even.of.lat, odd.of.lat, d),
           NEW turned \in Int, Congruent(turned, odd.of.lon, 36000), Close(even.of.lon, turned, e),
           NEW f \in Global(even, odd)
    PROVE  IsFix(f)
<1>1. PICK p \in Int, q \in Int, r \in Int :
        /\ p = even.of.lat /\ q = odd.of.lat /\ r = even.of.lon
        /\ -9000 < p /\ p < 9000 /\ -9000 < q /\ q < 9000
  BY DEF IsFrame, IsPlace
<1>2. PICK north \in Int, east \in Int :
        /\ InRow(even, north, p) /\ InColumn(even, east, NL(59 * north), r)
        /\ ZonesAt(even.of) = NL(59 * north)
  BY <1>1 DEF IsFrame, IsEncoding, Cell, Zones, LongitudeZones, ZonesAt
<1>3. IsEncoding(odd, q, turned)
  <2>1. PICK v \in Int : turned = odd.of.lon + 36000 * v
    BY DEF Congruent
  <2>2. odd.of.lon \in Int /\ IsEncoding(odd, q, odd.of.lon) /\ Cells > 0
    BY <1>1 DEF IsFrame, IsPlace
  <2>3. IsEncoding(odd, q, odd.of.lon + 36000 * v)
    BY <2>2, SameMeridian
  <2>. QED BY <2>1, <2>3
<1>4. PICK south \in Int, west \in Int :
        InRow(odd, south, q) /\ InColumn(odd, west, Greater(NL(60 * south) - 1, 1), turned)
  BY <1>3 DEF IsFrame, IsEncoding, Cell, LongitudeZones
<1>5. LatitudeFrom(even, even, odd) = 59 * north /\ LatitudeFrom(odd, even, odd) = 60 * south
  <2>1. Close(p, q, d) /\ even.fmt = "even" /\ odd.fmt = "odd"
    BY <1>1 DEF IsFrame
  <2>. QED BY <1>1, <1>2, <1>4, <2>1, LatitudesFrom
<1>6. PICK n \in 1..59 : n = NL(59 * north)
  BY ZonesOfLongitude
<1>. DEFINE m == Rounded((even.lon) * (n - 1) - (odd.lon) * n, Cells)
            c == Cells * (m % n) + even.lon
<1>7. /\ SameZones(even, odd)
      /\ f = [lat |-> 59 * north, lon |-> Within180((36000 * c) \div (n * Cells)), nl |-> n, of |-> even.of]
  BY <1>5, <1>6 DEF Global
<1>8. NL(60 * south) = n
  BY <1>5, <1>6, <1>7 DEF SameZones
<1>9. Congruent(c, east, n * Cells)
  <2>1. PICK other : other = IF n = 1 THEN 1 ELSE n - 1
    OBVIOUS
  <2>2. Greater(n - 1, 1) = other
    BY <1>6, <2>1 DEF Greater
  <2>3. InColumn(even, east, n, r) /\ InColumn(odd, west, other, turned) /\ Close(r, turned, e)
    BY <1>1, <1>2, <1>4, <1>6, <1>8, <2>2
  <2>4. SlowAt(e, n)
    BY <1>2, <1>6
  <2>. QED BY <1>1, <1>2, <1>4, <2>1, <2>3, <2>4, ZoneOfPair
<1>10. c \in Int
  <2>1. even.lon \in Int /\ odd.lon \in Int /\ n \in Int
    BY <1>2, <1>4, <1>6 DEF InColumn
  <2>2. even.lon * (n - 1) - odd.lon * n \in Int
    BY <2>1
  <2>3. m \in Int
    BY <2>2, RoundedIs
  <2>. QED BY <1>6, <2>1, <2>3
<1>. HIDE DEF c, m
<1>11. f.lon \in Int /\ Eastward(f.lon, r, n)
  <2>1. SameAngle(Within180(Counted180(c, n)), Counted180(c, n))
    BY DEF SameAngle, Within180
  <2>2. f.lon = Within180(Counted180(c, n))
    BY <1>7 DEF Counted180
  <2>3. InColumn(even, east, n, r)
    BY <1>2, <1>6
  <2>. QED BY <1>1, <1>2, <1>9, <1>10, <2>1, <2>2, <2>3, PlaceOf
<1>12. Northward(f.lat, p)
  <2>1. even.fmt = "even"
    BY DEF IsFrame
  <2>. QED BY <1>1, <1>2, <1>7, <2>1, NorthwardEven
<1>. QED BY <1>1, <1>7, <1>11, <1>12 DEF IsFix, Northward

-----------------------------------------------------------------------------
(* One frame and a reference                                               *)

\* A whole number of parts is told from a number less than half a part away.
Parted(x, d, k, m) == x = d * k + m

LEMMA NearestPart ==
    ASSUME NEW x \in Int, NEW d \in Int, d > 0, NEW k \in Int, NEW m \in Int, NEW y \in Int,
           NEW z \in Int, NEW g \in Int,
           Parted(x, d, k, m), Parted(x, d, z, y + g), -d <= 2 * g, 2 * g < d
    PROVE  k + Rounded(m - y, d) = z
<1>1. m - y = d * (z - k) + g
  <2>1. d * (z - k) = d * z - d * k
    OBVIOUS
  <2>. QED BY <2>1 DEF Parted
<1>2. m - y \in Int /\ z - k \in Int
  OBVIOUS
<1>3. Rounded(m - y, d) = z - k
  BY <1>1, <1>2, RoundsTo
<1>. QED BY <1>3

\* The zone of latitude of one frame, from a reference near it.
NearRow(x, p) == /\ -(299 * 59 * Cells) <= x * 600 - p * 59 * Cells
                 /\ x * 600 - p * 59 * Cells <= 299 * 59 * Cells

LEMMA LatitudeNear ==
    ASSUME Cells \in Int, Cells >= 512, NEW fmt \in {"even", "odd"}, NEW frame, frame.fmt = fmt,
           NEW north \in Int, NEW p \in Int, InRow(frame, north, p), NEW x \in Int, NearRow(x, p)
    PROVE  LET d == Cell(fmt) * Cells
               j == x \div d + Rounded((x % d) - Cell(fmt) * frame.lat, d)
           IN  d * j + Cell(fmt) * frame.lat = Cell(fmt) * north
<1>1. PICK t \in Int, u \in Int : t = Cell(fmt) /\ u = Zones(fmt) /\ t \in {59, 60} /\ u = 119 - t
  BY DEF Cell, Zones
<1>2. PICK A \in Int : A = Cells * p
  OBVIOUS
<1>3. PICK k \in Int, e \in Int : k = north \div Cells /\ e = north % Cells /\ north = Cells * k + e
  BY DivFacts
<1>4. PICK d \in Int : d = t * Cells /\ d > 0 /\ d >= 59 * Cells
  BY <1>1
<1>5. PICK h \in Int, m \in Int : h = x \div d /\ m = x % d /\ x = d * h + m
  BY <1>4, DivFacts
<1>. DEFINE g == x - t * north
            y == t * e
<1>6. g \in Int /\ y \in Int
  BY <1>1, <1>3
<1>7. x = d * k + y + g
  <2>1. t * (Cells * k + e) = (t * Cells) * k + t * e
    BY <1>1, <1>3
  <2>. QED BY <1>1, <1>3, <1>4, <1>5, <2>1
<1>8. -d <= 2 * g /\ 2 * g < d
  <2>1. Cells * (u * p) = u * A /\ p * 59 * Cells = 59 * A
    BY <1>1, <1>2
  <2>2. -18000 <= 36000 * north - u * A /\ 36000 * north - u * A <= 18000
    BY <1>1, <2>1 DEF InRow, Rounds
  <2>3. /\ -(299 * 59 * Cells) <= x * 600 - 59 * A
        /\ x * 600 - 59 * A <= 299 * 59 * Cells
    BY <2>1 DEF NearRow
  <2>4. CASE t = 59
    BY <1>1, <1>2, <1>4, <2>2, <2>3, <2>4
  <2>5. CASE t = 60
    BY <1>1, <1>2, <1>4, <2>2, <2>3, <2>5
  <2>. QED BY <1>1, <2>4, <2>5
<1>9. h + Rounded(m - y, d) = k
  <2>1. Parted(x, d, h, m) /\ Parted(x, d, k, y + g)
    <3>1. d * k \in Int
      BY <1>3, <1>4
    <3>2. Parted(x, d, h, m)
      BY <1>5 DEF Parted
    <3>. HIDE DEF g, y
    <3>3. PICK a \in Int : a = d * k
      BY <3>1
    <3>4. a + y + g = a + (y + g)
      BY <1>6
    <3>. QED BY <1>7, <3>2, <3>3, <3>4 DEF Parted
  <2>2. d \in Int /\ d > 0 /\ h \in Int /\ m \in Int /\ k \in Int
    BY <1>3, <1>4, <1>5
  <2>. HIDE DEF g, y
  <2>. QED BY <1>6, <1>8, <2>1, <2>2, NearestPart
<1>10. d * k + y = t * north
  <2>1. d * k \in Int /\ t * north \in Int
    BY <1>1, <1>3, <1>4
  <2>. HIDE DEF y
  <2>. QED BY <1>6, <1>7, <2>1
<1>11. frame.lat = e
  BY <1>3 DEF InRow
<1>. QED BY <1>1, <1>4, <1>5, <1>9, <1>10, <1>11

\* The zone of longitude of one frame, from a reference near it.
NearColumn(x, q) == \E w, away \in Int : x = q + 36000 * w + away /\ -299 <= away /\ away <= 299

\* The cells that decode_cpr_local counts to the frame.
ColumnNear(frame, n, x) ==
    LET east == n * x
        m    == east \div 36000
                + Rounded(Cells * (east % 36000) - 36000 * frame.lon, 36000 * Cells)
    IN  Cells * m + frame.lon

LEMMA LongitudeNear ==
    ASSUME Cells \in Int, Cells >= 512, NEW n \in 1..59, NEW frame, NEW col \in Int, NEW q \in Int,
           InColumn(frame, col, n, q), NEW x \in Int, NearColumn(x, q)
    PROVE  ColumnNear(frame, n, x) \in Int /\ Congruent(ColumnNear(frame, n, x), col, n * Cells)
<1>1. n \in Int /\ n >= 1 /\ n <= 59
  OBVIOUS
<1>2. PICK w \in Int, away \in Int : x = q + 36000 * w + away /\ -299 <= away /\ away <= 299
  BY DEF NearColumn
<1>3. PICK east \in Int : east = n * x
  BY <1>1
<1>4. PICK h \in Int, rest \in Int : /\ h = east \div 36000 /\ rest = east % 36000
                                     /\ east = 36000 * h + rest
  BY <1>3, DivFacts
<1>5. PICK k \in Int, e \in Int : k = col \div Cells /\ e = col % Cells /\ col = Cells * k + e
  BY DivFacts
<1>. DEFINE g == Cells * east - 36000 * (col + Cells * (n * w))
            d == 36000 * Cells
            z == k + n * w
            y == 36000 * e
            part == Cells * rest
<1>6. /\ g \in Int /\ d \in Int /\ d > 0 /\ z \in Int /\ y \in Int /\ part \in Int
      /\ Cells * east \in Int
  BY <1>1, <1>2, <1>3, <1>4, <1>5
<1>7. Cells * east = d * h + part
  BY <1>4
<1>8. Cells * east = d * z + y + g
  <2>1. d * z = 36000 * (Cells * k) + 36000 * (Cells * (n * w))
    <3>1. PICK b \in Int : b = n * w
      BY <1>1, <1>2
    <3>2. (36000 * Cells) * (k + b) = 36000 * (Cells * k) + 36000 * (Cells * b)
      BY <1>5, <3>1
    <3>. QED BY <3>1, <3>2
  <2>. QED BY <1>5, <1>6, <2>1
<1>9. -d <= 2 * g /\ 2 * g < d
  <2>1. PICK P \in Int, W \in Int, D \in Int : /\ P = Cells * (n * q) /\ W = Cells * (n * w)
                                               /\ D = Cells * (n * away)
    BY <1>1, <1>2
  <2>2. Cells * east = P + 36000 * W + D
    <3>1. Cells * (n * (q + 36000 * w + away)) = Cells * (n * q) + 36000 * (Cells * (n * w)) + Cells * (n * away)
      BY <1>1, <1>2
    <3>. QED BY <1>2, <1>3, <2>1, <3>1
  <2>3. -18000 <= 36000 * col - P /\ 36000 * col - P <= 18000
    BY <2>1 DEF InColumn, Rounds
  <2>4. -(17641 * Cells) <= D /\ D <= 17641 * Cells
    <3>1. n * away <= n * 299 /\ n * (-299) <= n * away
      BY <1>1, <1>2
    <3>2. PICK a \in Int : a = n * away
      BY <1>1, <1>2
    <3>3. -17641 <= a /\ a <= 17641
      BY <1>1, <3>1, <3>2
    <3>4. Cells * a <= Cells * 17641 /\ Cells * (-17641) <= Cells * a
      BY <3>2, <3>3
    <3>. QED BY <2>1, <3>2, <3>4
  <2>5. g = P + 36000 * W + D - 36000 * col - 36000 * W
    BY <2>1, <2>2
  <2>. HIDE DEF g
  <2>. QED BY <1>6, <2>1, <2>3, <2>4, <2>5
<1>10. h + Rounded(part - y, d) = z
  <2>. HIDE DEF g, d, z, y, part
  <2>1. PICK s \in Int : s = Cells * east
    BY <1>6
  <2>2. Parted(s, d, h, part) /\ Parted(s, d, z, y + g)
    <3>1. d * z \in Int
      BY <1>6
    <3>. QED BY <1>6, <1>7, <1>8, <2>1, <3>1 DEF Parted
  <2>3. h \in Int
    BY <1>4
  <2>. QED BY <1>6, <1>9, <2>1, <2>2, <2>3, NearestPart
<1>11. frame.lon = e
  BY <1>5 DEF InColumn
<1>12. Cells * z + e = col + (n * Cells) * w
  <2>1. PICK b \in Int : b = n * w
    BY <1>1, <1>2
  <2>2. k \in Int
    BY <1>5
  <2>3. Cells * (k + b) = Cells * k + Cells * b
    BY <2>2, <2>1
  <2>4. Cells * b = (n * Cells) * w
    BY <1>1, <1>2, <2>1
  <2>5. Cells * k \in Int /\ Cells * b \in Int
    BY <1>5, <2>1
  <2>. QED BY <1>5, <2>1, <2>3, <2>4, <2>5
<1>13. Cells * z + e \in Int /\ Congruent(Cells * z + e, col, n * Cells)
  <2>1. n * Cells \in Int /\ Cells * z + e \in Int
    BY <1>1, <1>5, <1>6
  <2>2. PICK a \in Int : a = Cells * z + e
    BY <2>1
  <2>3. a = col + (n * Cells) * w
    BY <1>12, <2>2
  <2>. HIDE DEF z
  <2>4. Congruent(a, col, n * Cells)
    BY <1>2, <2>3 DEF Congruent
  <2>. QED BY <2>1, <2>2, <2>4
<1>14. ColumnNear(frame, n, x) = Cells * z + e
  BY <1>3, <1>4, <1>10, <1>11 DEF ColumnNear
<1>. QED BY <1>13, <1>14

\* What a reference within 180 NM of the frame is, in both directions.
LEMMA NearIs ==
    ASSUME Cells \in Int, NEW frame, NEW p \in Int, NEW q \in Int, frame.of.lat = p, frame.of.lon = q,
           NEW ref, ref.lat \in Int, ref.lon \in Int, Near(frame, ref)
    PROVE  NearRow(ref.lat, p) /\ NearColumn(ref.lon, q)
<1>1. NearRow(ref.lat, p)
  <2>1. PICK B \in Int : B = p * 59 * Cells
    OBVIOUS
  <2>2. Abs(ref.lat * 600 - B) <= 299 * 59 * Cells
    BY <2>1 DEF Near
  <2>. QED BY <2>1, <2>2 DEF NearRow, Abs
<1>2. NearColumn(ref.lon, q)
  <2>1. PICK x \in Int : x = ref.lon - q
    OBVIOUS
  <2>2. PICK v \in Int, m \in Int : v = x \div 36000 /\ m = x % 36000 /\ x = 36000 * v + m
    BY DivFacts
  <2>3. 0 <= m /\ m < 36000
    BY <2>2
  <2>4. Abs(Within180(m)) <= 299
    BY <2>1, <2>2 DEF Near
  <2>5. v \in Int /\ m \in Int /\ ref.lon = q + 36000 * v + m
    <3>1. x = 36000 * v + m
      BY <2>2
    <3>. QED BY <2>1, <2>2, <3>1
  <2>6. CASE m <= 299
    <3>1. -299 <= m
      BY <2>3
    <3>. QED BY <2>6, <2>5, <3>1 DEF NearColumn
  <2>7. CASE m - 36000 >= -299
    <3>1. PICK w \in Int : w = v + 1
      BY <2>5
    <3>2. PICK away \in Int : away = m - 36000
      BY <2>5
    <3>3. ref.lon = q + 36000 * w + away /\ -299 <= away /\ away <= 299
      BY <2>7, <2>3, <2>5, <3>1, <3>2
    <3>. QED BY <3>3 DEF NearColumn
  <2>8. m <= 299 \/ m - 36000 >= -299
    BY <2>2, <2>4, <2>3 DEF Abs, Within180
  <2>. QED BY <2>6, <2>7, <2>8
<1>. QED BY <1>1, <1>2

\* decode_cpr_local: whatever it returns is the place of the frame.
LEMMA LocalIsTrue ==
    ASSUME Cells \in Int, Cells >= 512, NEW fmt \in {"even", "odd"},
           NEW frame, IsFrame(frame, fmt),
           NEW ref, ref.lat \in Int, ref.lon \in Int, Near(frame, ref),
           NEW f \in Local(frame, ref)
    PROVE  IsFix(f)
<1>1. PICK p \in Int, q \in Int : p = frame.of.lat /\ q = frame.of.lon
  BY DEF IsFrame, IsPlace
<1>2. frame.fmt = fmt /\ IsEncoding(frame, p, q)
  BY <1>1 DEF IsFrame
<1>3. PICK north \in Int, col \in Int :
        /\ InRow(frame, north, p)
        /\ InColumn(frame, col, LongitudeZones(fmt, NL(Cell(fmt) * north)), q)
  BY <1>2 DEF IsEncoding
<1>4. NearRow(ref.lat, p) /\ NearColumn(ref.lon, q)
  BY <1>1, NearIs
<1>. DEFINE d   == Cell(fmt) * Cells
            j   == ref.lat \div d + Rounded((ref.lat % d) - Cell(fmt) * frame.lat, d)
            lat == d * j + Cell(fmt) * frame.lat
<1>5. lat = Cell(fmt) * north
  BY <1>2, <1>3, <1>4, LatitudeNear
<1>6. PICK n \in 1..59 : n = LongitudeZones(fmt, NL(Cell(fmt) * north))
  BY LongitudeZonesType
<1>. DEFINE c    == ColumnNear(frame, n, ref.lon)
            raw  == Within180(Counted180(c, n))
            lon  == IF raw < -18000 THEN raw + 36000 ELSE raw
<1>7. f = [lat |-> lat, lon |-> lon, nl |-> n, of |-> frame.of]
  BY <1>2, <1>5, <1>6 DEF Local, Counted180, ColumnNear
<1>8. InColumn(frame, col, n, q)
  BY <1>3, <1>6
<1>9. c \in Int /\ Congruent(c, col, n * Cells)
  BY <1>1, <1>3, <1>4, <1>8, LongitudeNear
<1>10. lon \in Int /\ Eastward(lon, q, n)
  <2>. HIDE DEF c
  <2>1. SameAngle(lon, Counted180(c, n))
    <3>1. Counted180(c, n) \in Int
      <4>1. SameAngle(Counted180(c, n), Counted180(c, n))
        BY DEF SameAngle
      <4>. QED BY <1>1, <1>3, <1>8, <1>9, <4>1, PlaceOf
    <3>2. PICK a \in Int : a = Counted180(c, n)
      BY <3>1
    <3>. QED BY <3>2 DEF SameAngle, Within180
  <2>. HIDE DEF lon
  <2>. QED BY <1>1, <1>3, <1>8, <1>9, <2>1, PlaceOf
<1>11. Northward(lat, p)
  <2>. HIDE DEF lat
  <2>1. CASE fmt = "even"
    <3>1. lat = 59 * north
      BY <1>5, <2>1 DEF Cell
    <3>. QED BY <1>1, <1>2, <1>3, <2>1, <3>1, NorthwardEven
  <2>2. CASE fmt = "odd"
    <3>1. lat = 60 * north
      BY <1>5, <2>2 DEF Cell
    <3>. QED BY <1>1, <1>2, <1>3, <2>2, <3>1, NorthwardOdd
  <2>. QED BY <2>1, <2>2
<1>. HIDE DEF lat, lon
<1>12. f.lat = lat /\ f.lon = lon /\ f.nl = n /\ f.of = frame.of
  BY <1>7
<1>. QED BY <1>1, <1>10, <1>11, <1>12 DEF IsFix, Northward

-----------------------------------------------------------------------------
(* The inductive invariant                                                 *)

\* Since the frame was sent the aircraft, slow there, has flown straight on.
Left(f, place, heading, steps) ==
    /\ f.steps \in Int /\ SlowEast(f.of, heading)
    /\ f.of.lat = place.lat - (steps - f.steps) * heading.lat
    /\ Congruent(f.of.lon, place.lon - (steps - f.steps) * heading.lon, 36000)

\* The aircraft is somewhere, frames are where it was, and fixes are true.
CraftOk ==
    /\ craft \in [place : [lat : Int, lon : Int], heading : Headings, steps : Int]
    /\ IsPlace(craft.place) /\ SlowEast(craft.place, craft.heading)
FramesOk ==
    /\ frames = [fmt \in {"even", "odd"} |-> frames[fmt]]
    /\ \A fmt \in {"even", "odd"} : \A f \in frames[fmt] :
          IsFrame(f, fmt) /\ Left(f, craft.place, craft.heading, craft.steps)
FixesOk == \A f \in fixes : IsFix(f)
DecoderInv == CraftOk /\ FramesOk /\ FixesOk

\* Of the constants of the code.
LEMMA Constants == Cells \in Int /\ Cells >= 512 /\ Cells > 0 /\ MaxApart \in Int /\ MaxApart >= 0
BY DecoderAssumption

\* What an aircraft moves between two frames that are paired is slow.
LEMMA SlowHeadings ==
    ASSUME NEW h \in Headings
    PROVE  /\ h.lat \in Int /\ Slow(MaxApart * Abs(h.lat))
           /\ h.lon \in Int
           /\ \A p : SlowEast(p, h) => SlowAt(MaxApart * Abs(h.lon), ZonesAt(p))
<1>1. h \in [lat : Int, lon : Int]
  BY DecoderAssumption
<1>2. PICK a \in Int, b \in Int : a = Abs(h.lat) /\ b = Abs(h.lon) /\ a >= 0 /\ b >= 0
  BY <1>1 DEF Abs
<1>3. MaxApart * a \in Int /\ MaxApart * a >= 0 /\ MaxApart * b \in Int /\ MaxApart * b >= 0
  BY <1>2, Constants
<1>4. Slow(MaxApart * Abs(h.lat))
  BY <1>2, <1>3, DecoderAssumption DEF Slow, SlowNorth
<1>5. ASSUME NEW p, SlowEast(p, h)
      PROVE  SlowAt(MaxApart * Abs(h.lon), ZonesAt(p))
  <2>1. NL(Cell("even") * CellsNorth("even", p)) = ZonesAt(p)
    BY DEF Cell, Zones, CellsNorth, InParts, ZonesAt
  <2>2. MaxApart * Abs(h.lon) \in Int /\ MaxApart * Abs(h.lon) >= 0
    BY <1>2, <1>3
  <2>. QED BY <1>5, <2>1, <2>2 DEF SlowEast, SlowAt
<1>. QED BY <1>1, <1>4, <1>5

\* Two frames at most so many steps apart.
LEMMA CloseBy ==
    ASSUME NEW x \in Int, NEW y \in Int, NEW k \in Int, NEW h \in Int, NEW n \in Int,
           x - y = k * h, Abs(k) <= n
    PROVE  Close(x, y, n * Abs(h))
<1>1. PICK a \in Int : a = Abs(h) /\ a >= 0 /\ -a <= h /\ h <= a
  BY DEF Abs
<1>2. -n <= k /\ k <= n
  BY DEF Abs
<1>3. k * h <= n * a /\ -(n * a) <= k * h
  <2>1. CASE h >= 0
    <3>1. h = a
      BY <1>1, <2>1 DEF Abs
    <3>2. k * a <= n * a /\ (-n) * a <= k * a
      BY <1>1, <1>2
    <3>. QED BY <1>1, <3>1, <3>2
  <2>2. CASE h < 0
    <3>1. h = -a
      BY <1>1, <2>2 DEF Abs
    <3>2. k * a <= n * a /\ (-n) * a <= k * a
      BY <1>1, <1>2
    <3>3. k * (-a) = -(k * a) /\ (-n) * a = -(n * a)
      BY <1>1
    <3>. QED BY <1>1, <3>1, <3>2, <3>3
  <2>. QED BY <2>1, <2>2
<1>4. n * a \in Int /\ k * h \in Int
  BY <1>1
<1>. QED BY <1>1, <1>3, <1>4 DEF Close

\* Two frames that the client pairs give a true fix.
LEMMA PairIsTrue ==
    ASSUME CraftOk, FramesOk, NEW even \in frames["even"], NEW odd \in frames["odd"],
           Abs(even.steps - odd.steps) <= MaxApart, NEW f \in Global(even, odd)
    PROVE  IsFix(f)
<1>1. /\ IsFrame(even, "even") /\ Left(even, craft.place, craft.heading, craft.steps)
      /\ IsFrame(odd, "odd") /\ Left(odd, craft.place, craft.heading, craft.steps)
  BY DEF FramesOk
<1>2. PICK h : h = craft.heading /\ h \in Headings
  BY DEF CraftOk
<1>3. /\ h.lat \in Int /\ Slow(MaxApart * Abs(h.lat))
      /\ h.lon \in Int /\ SlowAt(MaxApart * Abs(h.lon), ZonesAt(even.of))
  BY <1>1, <1>2, SlowHeadings DEF Left
<1>4. PICK s \in Int, se \in Int, so \in Int : s = craft.steps /\ se = even.steps /\ so = odd.steps
  BY <1>1 DEF CraftOk, Left
<1>5. PICK la \in Int, lo \in Int : la = craft.place.lat /\ lo = craft.place.lon
  BY DEF CraftOk
<1>6. PICK ea \in Int, eo \in Int, oa \in Int, oo \in Int :
        ea = even.of.lat /\ eo = even.of.lon /\ oa = odd.of.lat /\ oo = odd.of.lon
  BY <1>1 DEF IsFrame, IsPlace
<1>7. PICK k \in Int, x \in Int, y \in Int : k = se - so /\ x = h.lat /\ y = h.lon
  BY <1>3, <1>4
<1>8. Abs(k) <= MaxApart
  BY <1>4, <1>7
<1>9. Close(even.of.lat, odd.of.lat, MaxApart * Abs(h.lat))
  <2>1. ea = la - (s - se) * x /\ oa = la - (s - so) * x
    BY <1>1, <1>2, <1>4, <1>5, <1>6, <1>7 DEF Left
  <2>2. ea - oa = k * x
    BY <1>7, <2>1
  <2>3. Close(ea, oa, MaxApart * Abs(x))
    BY <1>8, <2>2, Constants, CloseBy
  <2>. QED BY <1>6, <1>7, <2>3
<1>10. PICK turned \in Int : turned = eo - k * y
  OBVIOUS
<1>11. Close(even.of.lon, turned, MaxApart * Abs(h.lon))
  <2>1. eo - turned = k * y
    BY <1>10
  <2>2. Close(eo, turned, MaxApart * Abs(y))
    BY <1>8, <2>1, Constants, CloseBy
  <2>. QED BY <1>6, <1>7, <2>2
<1>12. Congruent(turned, odd.of.lon, 36000)
  <2>1. Congruent(eo, lo - (s - se) * y, 36000) /\ Congruent(oo, lo - (s - so) * y, 36000)
    BY <1>1, <1>2, <1>4, <1>5, <1>6, <1>7 DEF Left
  <2>2. PICK a \in Int : eo = lo - (s - se) * y + 36000 * a
    BY <2>1 DEF Congruent
  <2>3. PICK b \in Int : oo = lo - (s - so) * y + 36000 * b
    BY <2>1 DEF Congruent
  <2>4. turned = oo + 36000 * (a - b)
    BY <1>7, <1>10, <2>2, <2>3
  <2>5. PICK v \in Int : v = a - b
    OBVIOUS
  <2>6. turned = odd.of.lon + 36000 * v
    BY <1>6, <2>4, <2>5
  <2>. QED BY <2>6 DEF Congruent
<1>13. PICK d, e, zones : zones = ZonesAt(even.of) /\ d = MaxApart * Abs(h.lat) /\ e = MaxApart * Abs(h.lon)
  OBVIOUS
<1>14. /\ Slow(d) /\ SlowAt(e, zones)
       /\ Close(even.of.lat, odd.of.lat, d) /\ Close(even.of.lon, turned, e)
  BY <1>3, <1>9, <1>11, <1>13
<1>15. Cells \in Int /\ Cells >= 512 /\ IsFrame(even, "even") /\ IsFrame(odd, "odd")
  BY <1>1, Constants
<1>. QED BY <1>12, <1>13, <1>14, <1>15, GlobalIsTrue

\* What the service accepts is the frame as it was sent: a message whose position
\* was changed is not valid (crc.cpp validate, fix_single_bit_error).
LEMMA DecodedIsFrame ==
    ASSUME CraftOk, NEW fmt \in {"even", "odd"}, NEW flipped \in Flips,
           NEW bits \in {flipped, Repaired[flipped]},
           NEW f \in Decoded([Encoded(fmt, craft.place) EXCEPT !.flipped = bits])
    PROVE  IsFrame(f, fmt) /\ Left(f, craft.place, craft.heading, craft.steps)
<1>. DEFINE place == craft.place
<1>1. PICK sent : sent = Encoded(fmt, place)
  OBVIOUS
<1>2. place.lat \in Int /\ place.lon \in Int /\ IsPlace(place) /\ craft.steps \in Int
  BY DEF CraftOk
<1>3. /\ sent = [fmt |-> fmt, of |-> place, steps |-> craft.steps, flipped |-> {},
                 lat |-> sent.lat, lon |-> sent.lon]
      /\ IsEncoding(sent, place.lat, place.lon)
  <2>. HIDE DEF place
  <2>. QED BY <1>1, <1>2, Constants, EncodedIs
<1>4. PICK frame : frame = [sent EXCEPT !.flipped = bits]
  OBVIOUS
<1>5. /\ frame.fmt = fmt /\ frame.of = place /\ frame.steps = craft.steps /\ frame.flipped = bits
      /\ frame.lat = sent.lat /\ frame.lon = sent.lon /\ sent.fmt = fmt
  BY <1>3, <1>4
<1>6. f = frame
  <2>1. Valid(17, bits)
    BY <1>1, <1>4, <1>5 DEF Decoded
  <2>2. bits \cap (54..87) = {}
    BY <2>1, DecoderAssumption DEF Valid
  <2>. QED BY <1>1, <1>4, <1>5, <2>1, <2>2 DEF Decoded
<1>7. IsEncoding(frame, place.lat, place.lon)
  BY <1>3, <1>5 DEF IsEncoding, InRow, InColumn
<1>8. IsFrame(frame, fmt)
  BY <1>2, <1>5, <1>7 DEF IsFrame
<1>9. Left(frame, place, craft.heading, craft.steps)
  <2>1. PICK h : h = craft.heading /\ h \in Headings
    BY DEF CraftOk
  <2>2. h.lat \in Int /\ h.lon \in Int
    BY <2>1, SlowHeadings
  <2>3. /\ place.lat = place.lat - (craft.steps - craft.steps) * h.lat
        /\ place.lon = place.lon - (craft.steps - craft.steps) * h.lon
    BY <1>2, <2>2
  <2>4. Congruent(place.lon, place.lon - (craft.steps - craft.steps) * h.lon, 36000)
    <3>1. PICK v \in Int : v = 0
      OBVIOUS
    <3>2. PICK a \in Int : a = place.lon
      BY <1>2
    <3>3. a = a + 36000 * v
      BY <3>1
    <3>4. Congruent(a, a, 36000)
      BY <3>3 DEF Congruent
    <3>. QED BY <2>3, <3>2, <3>4
  <2>5. SlowEast(place, h)
    BY <2>1 DEF CraftOk
  <2>. HIDE DEF place
  <2>. QED BY <1>2, <1>5, <2>1, <2>3, <2>4, <2>5 DEF Left
<1>. QED BY <1>6, <1>8, <1>9

\* Flying on, over the date line too, leaves earlier frames where they were sent.
LEMMA FlyKeeps ==
    ASSUME CraftOk, FramesOk, Fly
    PROVE  CraftOk' /\ FramesOk'
<1>1. PICK h : h = craft.heading /\ h \in Headings
  BY DEF CraftOk
<1>2. h.lat \in Int /\ h.lon \in Int
  BY <1>1, SlowHeadings
<1>3. PICK x \in Int, y \in Int, s \in Int :
        x = craft.place.lat /\ y = craft.place.lon /\ s = craft.steps /\ craft.place = [lat |-> x, lon |-> y]
  BY DEF CraftOk
<1>4. craft = [place |-> [lat |-> x, lon |-> y], heading |-> h, steps |-> s]
  BY <1>1, <1>3 DEF CraftOk
<1>5. PICK z \in Int, v \in Int : z = Within180(y + h.lon) /\ z = y + h.lon + 36000 * v
  <2>1. PICK a \in Int : a = y + h.lon
    BY <1>2
  <2>2. PICK v \in Int : v = IF a > 18000 THEN -1 ELSE 0
    OBVIOUS
  <2>3. PICK z \in Int : z = a + 36000 * v
    OBVIOUS
  <2>4. z = Within180(a)
    BY <2>2, <2>3 DEF Within180
  <2>. QED BY <2>1, <2>3, <2>4
<1>6. craft' = [place |-> [lat |-> x + h.lat, lon |-> z], heading |-> h, steps |-> s + 1]
  <2>1. craft' = [craft EXCEPT !.steps = s + 1, !.place = [lat |-> x + h.lat, lon |-> z]]
    BY <1>1, <1>3, <1>5 DEF Fly
  <2>. QED BY <1>4, <2>1
<1>7. -9000 < x + h.lat /\ x + h.lat < 9000
  <2>1. Abs(x + h.lat) < 9000
    BY <1>1, <1>3 DEF Fly
  <2>. QED BY <1>2, <2>1 DEF Abs
<1>8. CraftOk'
  <2>1. SlowEast([lat |-> x + h.lat, lon |-> z], h)
    BY <1>1, <1>3, <1>5 DEF Fly
  <2>2. craft'.place = [lat |-> x + h.lat, lon |-> z] /\ craft'.heading = h
    BY <1>6
  <2>3. SlowEast(craft'.place, craft'.heading)
    BY <2>1, <2>2
  <2>. QED BY <1>1, <1>2, <1>5, <1>6, <1>7, <2>3 DEF CraftOk, IsPlace
<1>9. ASSUME NEW f, IsPlace(f.of), Left(f, craft.place, craft.heading, craft.steps)
      PROVE  Left(f, craft'.place, craft'.heading, craft'.steps)
  <2>1. PICK k \in Int : k = f.steps
    BY <1>9 DEF Left
  <2>2. PICK a \in Int, b \in Int : a = f.of.lat /\ b = f.of.lon
    BY <1>9 DEF IsPlace
  <2>3. a = x - (s - k) * h.lat /\ Congruent(b, y - (s - k) * h.lon, 36000)
    BY <1>1, <1>3, <1>9, <2>1, <2>2 DEF Left
  <2>4. PICK w \in Int : b = y - (s - k) * h.lon + 36000 * w
    BY <2>3 DEF Congruent
  <2>5. (s + 1 - k) * h.lat = (s - k) * h.lat + h.lat /\ (s + 1 - k) * h.lon = (s - k) * h.lon + h.lon
    BY <1>2
  <2>6. a = x + h.lat - (s + 1 - k) * h.lat
    BY <1>2, <2>3, <2>5
  <2>7. Congruent(b, z - (s + 1 - k) * h.lon, 36000)
    <3>1. PICK u \in Int : u = w - v
      BY <1>5, <2>4
    <3>2. b = z - (s + 1 - k) * h.lon + 36000 * u
      BY <1>2, <1>5, <2>2, <2>4, <2>5, <3>1
    <3>. QED BY <3>2 DEF Congruent
  <2>8. craft'.place.lat = x + h.lat /\ craft'.place.lon = z /\ craft'.heading = h /\ craft'.steps = s + 1
    BY <1>6
  <2>9. PICK place : place = craft'.place
    OBVIOUS
  <2>10. place.lat = x + h.lat /\ place.lon = z
    BY <2>8, <2>9
  <2>11. Left(f, place, h, s + 1)
    <3>1. f.steps = k /\ f.of.lat = a /\ f.of.lon = b /\ k \in Int
      BY <2>1, <2>2
    <3>2. f.of.lat = place.lat - (s + 1 - f.steps) * h.lat
      <4>1. a = place.lat - (s + 1 - k) * h.lat
        BY <1>2, <2>6, <2>10
      <4>. QED BY <3>1, <4>1
    <3>3. Congruent(f.of.lon, place.lon - (s + 1 - f.steps) * h.lon, 36000)
      BY <2>7, <2>10, <3>1
    <3>4. SlowEast(f.of, h)
      BY <1>1, <1>9 DEF Left
    <3>. QED BY <3>1, <3>2, <3>3, <3>4 DEF Left
  <2>. QED BY <2>8, <2>9, <2>11
<1>10. frames' = frames
  BY DEF Fly
<1>11. FramesOk'
  BY <1>9, <1>10 DEF FramesOk, IsFrame
<1>. QED BY <1>8, <1>11

\* The invariant holds at the start, and every step keeps it.
LEMMA DecoderInit_Inv == DecoderInit => DecoderInv
<1>. SUFFICES ASSUME DecoderInit PROVE DecoderInv
  OBVIOUS
<1>1. CraftOk
  <2>1. craft \in [place : Starts, heading : Headings, steps : {0}]
    BY DEF DecoderInit
  <2>2. craft.place \in [lat : Int, lon : Int] /\ Abs(craft.place.lat) < 9000
    BY <2>1, DecoderAssumption
  <2>3. SlowEast(craft.place, craft.heading)
    BY <2>1, DecoderAssumption
  <2>. QED BY <2>1, <2>2, <2>3 DEF CraftOk, IsPlace, Abs
<1>2. FramesOk /\ FixesOk
  BY DEF DecoderInit, FramesOk, FixesOk
<1>. QED BY <1>1, <1>2 DEF DecoderInv

LEMMA DecoderStep_Inv == DecoderInv /\ [DecoderNext]_decoderVars => DecoderInv'
<1>. SUFFICES ASSUME DecoderInv, [DecoderNext]_decoderVars PROVE DecoderInv'
  OBVIOUS
<1>1. CraftOk /\ FramesOk /\ FixesOk
  BY DEF DecoderInv
<1>2. ASSUME UNCHANGED <<craft, frames, fixes>> PROVE DecoderInv'
  <2>1. CraftOk' /\ FramesOk' /\ FixesOk'
    BY <1>1, <1>2 DEF CraftOk, FramesOk, FixesOk
  <2>. QED BY <2>1 DEF DecoderInv
<1>3. CASE DecodePosition
  <2>1. UNCHANGED <<craft, fixes>>
    BY <1>3 DEF DecodePosition
  <2>2. PICK fmt \in {"even", "odd"}, flipped \in Flips, repair \in BOOLEAN :
          LET bits   == IF repair THEN Repaired[flipped] ELSE flipped
              answer == Decoded([Encoded(fmt, craft.place) EXCEPT !.flipped = bits])
          IN  frames' = IF answer = {} THEN frames ELSE [frames EXCEPT ![fmt] = answer]
    BY <1>3 DEF DecodePosition
  <2>. DEFINE bits   == IF repair THEN Repaired[flipped] ELSE flipped
              answer == Decoded([Encoded(fmt, craft.place) EXCEPT !.flipped = bits])
  <2>3. \A f \in answer : IsFrame(f, fmt) /\ Left(f, craft.place, craft.heading, craft.steps)
    <3>1. bits \in {flipped, Repaired[flipped]}
      OBVIOUS
    <3>. HIDE DEF bits
    <3>. QED BY <1>1, <3>1, DecodedIsFrame
  <2>4. FramesOk'
    <3>1. frames' = IF answer = {} THEN frames ELSE [frames EXCEPT ![fmt] = answer]
      BY <2>2
    <3>. HIDE DEF answer
    <3>. QED BY <1>1, <2>1, <2>3, <3>1 DEF FramesOk
  <2>5. CraftOk' /\ FixesOk'
    BY <1>1, <2>1 DEF CraftOk, FixesOk
  <2>. QED BY <2>4, <2>5 DEF DecoderInv
<1>4. CASE PairFrames
  <2>1. PICK even \in frames["even"], odd \in frames["odd"] :
          Abs(even.steps - odd.steps) <= MaxApart /\ fixes' = Global(even, odd)
    BY <1>4 DEF PairFrames
  <2>2. \A f \in Global(even, odd) : IsFix(f)
    BY <1>1, <2>1, PairIsTrue
  <2>3. FixesOk'
    BY <2>1, <2>2 DEF FixesOk
  <2>4. CraftOk' /\ FramesOk'
    BY <1>1, <1>4 DEF PairFrames, CraftOk, FramesOk
  <2>. QED BY <2>3, <2>4 DEF DecoderInv
<1>5. CASE FollowFrame
  <2>1. PICK ref \in fixes, fmt \in {"even", "odd"} : \E frame \in frames[fmt] :
          Near(frame, ref) /\ fixes' = Local(frame, ref)
    BY <1>5 DEF FollowFrame
  <2>2. PICK frame \in frames[fmt] : Near(frame, ref) /\ fixes' = Local(frame, ref)
    BY <2>1
  <2>3. IsFrame(frame, fmt) /\ ref.lat \in Int /\ ref.lon \in Int
    BY <1>1, <2>1, <2>2 DEF FramesOk, FixesOk, IsFix
  <2>4. \A f \in Local(frame, ref) : IsFix(f)
    BY <2>2, <2>3, Constants, LocalIsTrue
  <2>5. FixesOk'
    BY <2>2, <2>4 DEF FixesOk
  <2>6. CraftOk' /\ FramesOk'
    BY <1>1, <1>5 DEF FollowFrame, CraftOk, FramesOk
  <2>. QED BY <2>5, <2>6 DEF DecoderInv
<1>6. CASE Fly
  <2>1. CraftOk' /\ FramesOk'
    BY <1>1, <1>6, FlyKeeps
  <2>2. FixesOk'
    BY <1>1, <1>6 DEF Fly, FixesOk
  <2>. QED BY <2>1, <2>2 DEF DecoderInv
<1>. QED
  BY <1>2, <1>3, <1>4, <1>5, <1>6
  DEF DecoderNext, AcceptsClient, ReportMetrics, OtherRequest, EmptyBody, MalformedBody,
      DecodeOther, Stop, LoopEnds, decoderVars

-----------------------------------------------------------------------------
\* Whatever decode_cpr_global (cpr.cpp:78) and decode_cpr_local (cpr.cpp:160)
\* return for frames of an aircraft is where the frame was sent, to one cell in
\* each direction: for every place off the poles, every number of cells, every
\* speed at which zones can be told apart, and all errors the checksum detects.
THEOREM FixesCorrect == DecoderSpec => []FixesAreTrue
<1>1. DecoderInv => FixesAreTrue
  BY DEF DecoderInv, FixesOk, IsFix, FixesAreTrue, Eastward
<1>. QED BY <1>1, DecoderInit_Inv, DecoderStep_Inv, PTL DEF DecoderSpec
=============================================================================
