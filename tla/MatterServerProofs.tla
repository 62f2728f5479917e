------------------------- MODULE MatterServerProofs -------------------------
(***************************************************************************)
(* The Matter server for every set of readings: what the conversions of    *)
(* Readings do, what the server's start registers, and what a client gets. *)
(***************************************************************************)
EXTENDS MatterServer, DataModelProofs

-----------------------------------------------------------------------------
(* Conversions *)

\* The bounds of the two ranges are integers, which is all their membership needs.
LEMMA LimitsAre == 0 \in Int /\ INT16_MIN \in Int /\ INT16_MAX \in Int /\ UINT16_MAX \in Int
BY SMT DEF INT16_MIN, INT16_MAX, UINT16_MAX

LEMMA IntervalIs ==
  ASSUME NEW a \in Int, NEW b \in Int, NEW x \in a..b
  PROVE  x \in Int /\ x >= a /\ x <= b
BY SMT

LEMMA Uint16Is ==
  ASSUME NEW x \in Uint16
  PROVE  x \in Int /\ x >= 0 /\ x <= UINT16_MAX
BY Zenon, LimitsAre, IntervalIs DEF Uint16

LEMMA Int16Is ==
  ASSUME NEW x \in Int16
  PROVE  x \in Int /\ x >= INT16_MIN /\ x <= INT16_MAX
BY Zenon, LimitsAre, IntervalIs DEF Int16

LEMMA InUint16 ==
  ASSUME NEW x \in Int, 0 <= x, x <= UINT16_MAX
  PROVE  x \in Uint16
BY SMT, LimitsAre DEF Uint16

LEMMA Within16 ==
  ASSUME NEW x \in Int, 0 <= x, x < 65536
  PROVE  x % 65536 = x
BY SMT

\* The smallest 16-bit number is the only one whose bits mean null.
LEMMA NotNull ==
  ASSUME NEW x \in Int, x > INT16_MIN, x <= INT16_MAX
  PROVE  Representable(TRUE, x) /\ x \in Int16
<1>1. x > -32768 /\ x <= 32767
  BY SMT DEF INT16_MIN, INT16_MAX
<1>2. Representable(TRUE, x)
  BY SMT, <1>1 DEF Representable, ToUint16, NullBits
<1>3. INT16_MIN \in Int /\ INT16_MAX \in Int
  BY SMT DEF INT16_MIN, INT16_MAX
<1>4. x \in Int16
  BY SMT, <1>3 DEF Int16
<1> QED
  BY Zenon, <1>2, <1>4

LEMMA TiltTempIs ==
  ASSUME NEW f \in Int, f >= 0, f <= UINT16_MAX
  PROVE  /\ CentiOf(f) \in Int /\ CentiOf(f) > INT16_MIN /\ CentiOf(f) <= INT16_MAX
         /\ TempAccurate(CentiOf(f), f)
<1>1. CentiOf(f) \in Int /\ CentiOf(f) > INT16_MIN /\ CentiOf(f) <= INT16_MAX
  BY SMT DEF CentiOf, Quotient, Greatest, Least, INT16_MIN, INT16_MAX, UINT16_MAX
<1>2. TempAccurate(CentiOf(f), f)
  BY SMT DEF CentiOf, Quotient, Greatest, Least, TempAccurate, INT16_MIN, INT16_MAX, UINT16_MAX
<1> QED
  BY Zenon, <1>1, <1>2

\* tilt_black_decode gives a 16-bit number that is right to a hundredth of a
\* degree or is the largest one, and never the one whose bits mean null, so that
\* the endpoint of the brew's temperature always takes it.
THEOREM TiltTempRight ==
  \A f \in Uint16 : /\ CentiOf(f) \in Int16
                    /\ TempAccurate(CentiOf(f), f)
                    /\ Representable(TRUE, CentiOf(f))
BY Zenon, Uint16Is, TiltTempIs, NotNull

\* Millionths of a degree of which 16 bits hold the hundredths
Measurable(micro) == micro \in Int /\ micro > -327680000 /\ micro < 327680000

LEMMA AmbientInLiterals ==
  ASSUME NEW micro \in Int, micro > -327680000, micro < 327680000
  PROVE  /\ AmbientCenti(micro) \in Int
         /\ AmbientCenti(micro) > -32768 /\ AmbientCenti(micro) <= 32767
         /\ AmbientAccurate(AmbientCenti(micro), micro)
<1> DEFINE whole == Val1(micro)
           rest == Val2(micro)
           hundredths == Quotient(rest, 10000)
           centi == whole * 100 + hundredths
<1>1. whole \in Int /\ rest \in Int /\ micro = 1000000 * whole + rest
  BY SMT DEF Val1, Val2, Micro, Quotient
<1>2. micro >= 0 => rest >= 0 /\ rest < 1000000
  BY SMT DEF Val1, Val2, Micro, Quotient
<1>3. micro < 0 => rest <= 0 /\ rest > -1000000
  BY SMT DEF Val1, Val2, Micro, Quotient
<1> HIDE DEF whole, rest
<1>4. /\ hundredths \in Int
      /\ rest >= 0 => 10000 * hundredths <= rest /\ rest < 10000 * hundredths + 10000
      /\ rest <= 0 => 10000 * hundredths >= rest /\ rest > 10000 * hundredths - 10000
  BY SMT, <1>1 DEF Quotient
<1> HIDE DEF hundredths
<1>5. centi \in Int /\ centi > -32768 /\ centi <= 32767
  BY SMT, <1>1, <1>2, <1>3, <1>4
<1>6. 10000 * centi - micro > -10000 /\ 10000 * centi - micro < 10000
  BY SMT, <1>1, <1>2, <1>3, <1>4
<1>7. AmbientCenti(micro) = ToInt16(centi)
  BY SMT DEF AmbientCenti, whole, rest, hundredths
<1> HIDE DEF centi
<1>8. ToInt16(centi) = centi
  <2>1. centi + 32768 \in Int /\ 0 <= centi + 32768 /\ centi + 32768 < 65536
    BY SMT, <1>5
  <2>2. (centi + 32768) % 65536 = centi + 32768
    BY SMT, <2>1, Within16
  <2>3. ToInt16(centi) = ((centi + 32768) % 65536) - 32768
    BY SMT DEF ToInt16
  <2> QED BY SMT, <1>5, <2>2, <2>3
<1>9. AmbientAccurate(centi, micro)
  <2> DEFINE off == 10000 * centi - micro
  <2>1. off \in Int
    BY SMT, <1>5
  <2>2. off > -10000 /\ off < 10000
    BY SMT, <1>6
  <2>3. AmbientAccurate(centi, micro) <=> off \in -9999..9999
    BY SMT DEF AmbientAccurate
  <2> HIDE DEF off
  <2>4. off >= -9999 /\ off <= 9999
    BY SMT, <2>1, <2>2
  <2> QED BY SMT, <2>1, <2>3, <2>4
<1> QED
  BY SMT, <1>5, <1>7, <1>8, <1>9

\* The two parts of a sensor_value put together again, in hundredths
LEMMA AmbientIs ==
  ASSUME NEW micro \in Int, Measurable(micro)
  PROVE  /\ AmbientCenti(micro) \in Int
         /\ AmbientCenti(micro) > INT16_MIN /\ AmbientCenti(micro) <= INT16_MAX
         /\ AmbientAccurate(AmbientCenti(micro), micro)
BY SMT, AmbientInLiterals DEF Measurable, INT16_MIN, INT16_MAX

\* ambient_read_centi_c is right to a hundredth of a degree, on both sides of
\* zero, as long as 16 bits can hold it.
THEOREM AmbientRight ==
  \A micro \in Int : Measurable(micro) =>
    /\ AmbientCenti(micro) \in Int16
    /\ AmbientAccurate(AmbientCenti(micro), micro)
    /\ Representable(TRUE, AmbientCenti(micro))
BY Zenon, AmbientIs, NotNull

LEMMA SignedBits ==
  ASSUME NEW x \in Int, x >= INT16_MIN, x <= INT16_MAX
  PROVE  /\ Representable(TRUE, x) <=> Bits(Bytes(ToUint16(x))) # NullBits(TRUE)
         /\ ToInt16(Bits(Bytes(ToUint16(x)))) = x
BY SMT DEF Representable, NullBits, Bits, Bytes, ToUint16, ToInt16, INT16_MIN, INT16_MAX

LEMMA UnsignedBits ==
  ASSUME NEW x \in Int, x >= 0, x <= UINT16_MAX
  PROVE  /\ Representable(FALSE, x) <=> Bits(Bytes(ToUint16(x))) # NullBits(FALSE)
         /\ Bits(Bytes(ToUint16(x))) = x
BY SMT DEF Representable, NullBits, Bits, Bytes, ToUint16, UINT16_MAX

\* What the application sets is what the host reads, when the SDK takes it.
THEOREM HostReadsWhatWasSet ==
  /\ \A x \in Int16 : Representable(TRUE, x) =>
       HostReads(TRUE, Bits(Bytes(ToUint16(x)))) = x
  /\ \A x \in Uint16 : Representable(FALSE, x) =>
       HostReads(FALSE, Bits(Bytes(ToUint16(x)))) = x
<1>1. ASSUME NEW x \in Int16, Representable(TRUE, x)
      PROVE  HostReads(TRUE, Bits(Bytes(ToUint16(x)))) = x
  BY Zenon, <1>1, Int16Is, SignedBits DEF HostReads
<1>2. ASSUME NEW x \in Uint16, Representable(FALSE, x)
      PROVE  HostReads(FALSE, Bits(Bytes(ToUint16(x)))) = x
  BY Zenon, <1>2, Uint16Is, UnsignedBits DEF HostReads
<1> QED
  BY Zenon, <1>1, <1>2

-----------------------------------------------------------------------------
(* What is served *)

LEMMA LengthIs == Len(GENERATED_CLUSTERS) = 20
BY DEF GENERATED_CLUSTERS, RootClusters, SensorClusters

LEMMA RootNames ==
  \A k \in 1..11 : ClustersOf(0)[k].id =
    <<"Descriptor", "AccessControl", "BasicInformation", "OtaSoftwareUpdateRequestor",
      "LocalizationConfiguration", "GeneralCommissioning", "NetworkCommissioning",
      "GeneralDiagnostics", "AdministratorCommissioning", "OperationalCredentials",
      "GroupKeyManagement">>[k]
<1>1. \A k \in 1..11 : ClustersOf(0)[k] = RootClusters[k]
  BY RootRows
<1> HIDE DEF RootClusters
<1> QED BY <1>1 DEF RootClusters, Cluster

LEMMA SensorNames ==
  ASSUME NEW e \in 1..3
  PROVE  /\ ClustersOf(e)[1].id = "Identify" /\ ClustersOf(e)[2].id = "Descriptor"
         /\ ClustersOf(e)[3].id = MeasurementCluster(e)
<1>1. /\ ClustersOf(e)[1] = SensorClusters[3 * (e - 1) + 1]
      /\ ClustersOf(e)[2] = SensorClusters[3 * (e - 1) + 2]
      /\ ClustersOf(e)[3] = SensorClusters[3 * (e - 1) + 3]
  BY SensorRows
<1> QED BY <1>1 DEF SensorClusters, Cluster, MeasurementCluster, kGravityEndpoint

AllPlugins == {PluginsInit[i] : i \in DOMAIN PluginsInit}

LEMMA PluginNames ==
  AllPlugins =
    {"Identify", "Descriptor", "AccessControl", "BasicInformation",
     "OtaSoftwareUpdateRequestor", "LocalizationConfiguration", "GeneralCommissioning",
     "NetworkCommissioning", "GeneralDiagnostics", "AdministratorCommissioning",
     "OperationalCredentials", "GroupKeyManagement", "TemperatureMeasurement",
     "RelativeHumidityMeasurement"}
BY DEF AllPlugins, PluginsInit

LEMMA NamesKnown ==
  ASSUME NEW e \in Endpoints, NEW k \in DOMAIN ClustersOf(e)
  PROVE  ClustersOf(e)[k].id \in AllPlugins /\ ClustersOf(e)[k].id \in EmberInitCallback
<1>1. CASE e = 0
  BY <1>1, RootNames, RootRows, PluginNames DEF EmberInitCallback, CodeDriven
<1>2. CASE e \in 1..3
  <2>1. ClustersOf(e)[k].id \in {"Identify", "Descriptor", MeasurementCluster(e)}
    BY <1>2, SensorNames, SensorRows
  <2> QED BY <2>1, PluginNames DEF EmberInitCallback, CodeDriven, MeasurementCluster
<1> QED BY <1>1, <1>2, EndpointsAre

LEMMA ServedIs ==
  \A s : s \in Served <=> \E e \in Endpoints : \E k \in DOMAIN ClustersOf(e) : s = <<e, ClustersOf(e)[k].id>>
BY DEF Served

\* The order in which the clusters are gone through
LEMMA RootAt ==
  ASSUME NEW n \in 0..10
  PROVE  ClusterAt(n) = <<0, ClustersOf(0)[n + 1].id>>
<1> DEFINE before == ClustersBefore
           Here1(d) == n \in before[d]..(before[d + 1] - 1)
           e == CHOOSE d \in Endpoints : Here1(d)
<1>1. before[0] = 0 /\ before[1] = 11 /\ before[2] = 14 /\ before[3] = 17 /\ before[4] = 20
  BY CountSums
<1>2. Here1(0) /\ \A d \in 1..3 : ~Here1(d)
  BY <1>1
<1>3. e = 0
  BY <1>2, EndpointsAre
<1>4. ClusterAt(n) = <<e, ClustersOf(e)[n - before[e] + 1].id>>
  BY Zenon DEF ClusterAt, ClustersBefore
<1>5. n - before[0] + 1 = n + 1
  BY <1>1
<1> QED BY <1>3, <1>4, <1>5

LEMMA SensorAt ==
  ASSUME NEW d \in 1..3, NEW k \in 1..3
  PROVE  ClusterAt(7 + 3 * d + k) = <<d, ClustersOf(d)[k].id>>
<1> DEFINE before == ClustersBefore
           n == 7 + 3 * d + k
           Here1(i) == n \in before[i]..(before[i + 1] - 1)
           e == CHOOSE i \in Endpoints : Here1(i)
<1>1. before[0] = 0 /\ before[1] = 11 /\ before[2] = 14 /\ before[3] = 17 /\ before[4] = 20
  BY CountSums
<1>2. Here1(d) /\ \A i \in 0..3 : i # d => ~Here1(i)
  BY <1>1
<1>3. e = d
  BY <1>2, EndpointsAre
<1>4. ClusterAt(n) = <<e, ClustersOf(e)[n - before[e] + 1].id>>
  BY Zenon DEF ClusterAt, ClustersBefore
<1>5. n - before[d] + 1 = k
  BY <1>1
<1> QED BY <1>3, <1>4, <1>5

LEMMA AtServed ==
  ASSUME NEW n \in 0..19
  PROVE  ClusterAt(n) \in Served
<1>1. CASE n \in 0..10
  <2>1. ClusterAt(n) = <<0, ClustersOf(0)[n + 1].id>>
    BY <1>1, RootAt
  <2>2. 0 \in Endpoints /\ n + 1 \in DOMAIN ClustersOf(0)
    BY <1>1, RootRows, EndpointsAre
  <2> QED BY <2>1, <2>2, ServedIs, Zenon
<1>2. CASE n \in 11..19
  <2>1. PICK d \in 1..3, k \in 1..3 : n = 7 + 3 * d + k
    <3>1. CASE n \in 11..13
      BY <3>1
    <3>2. CASE n \in 14..16
      BY <3>2
    <3>3. CASE n \in 17..19
      BY <3>3
    <3> QED BY <1>2, <3>1, <3>2, <3>3
  <2>2. ClusterAt(n) = <<d, ClustersOf(d)[k].id>>
    BY <2>1, SensorAt
  <2>3. d \in Endpoints /\ k \in DOMAIN ClustersOf(d)
    BY SensorRows, EndpointsAre
  <2> QED BY <2>2, <2>3, ServedIs, Zenon
<1> QED BY <1>1, <1>2

LEMMA ServedAt ==
  ASSUME NEW s \in Served
  PROVE  \E n \in 0..19 : ClusterAt(n) = s
<1>1. PICK e \in Endpoints : \E k \in DOMAIN ClustersOf(e) : s = <<e, ClustersOf(e)[k].id>>
  BY ServedIs, Zenon
<1>2. PICK k \in DOMAIN ClustersOf(e) : s = <<e, ClustersOf(e)[k].id>>
  BY <1>1
<1>3. CASE e = 0
  <2>1. k - 1 \in 0..10 /\ (k - 1) + 1 = k
    BY <1>3, RootRows
  <2>2. ClusterAt(k - 1) = <<0, ClustersOf(0)[(k - 1) + 1].id>>
    BY <2>1, RootAt
  <2> QED BY <1>2, <1>3, <2>1, <2>2
<1>4. CASE e \in 1..3
  <2>1. k \in 1..3
    BY <1>4, SensorRows
  <2>2. ClusterAt(7 + 3 * e + k) = <<e, ClustersOf(e)[k].id>> /\ 7 + 3 * e + k \in 0..19
    BY <1>4, <2>1, SensorAt
  <2> QED BY <1>2, <2>2
<1> QED BY <1>3, <1>4, EndpointsAre

\* Where the code-driven servers are
PlacesOf(c) ==
  IF c = "Descriptor" THEN 0..3 ELSE IF c = "Identify" THEN 1..3 ELSE {0}

LEMMA Places ==
  ASSUME NEW s \in Served, s[2] \in CodeDriven
  PROVE  s = <<s[1], s[2]>> /\ s[1] \in PlacesOf(s[2])
<1>1. PICK e \in Endpoints : \E k \in DOMAIN ClustersOf(e) : s = <<e, ClustersOf(e)[k].id>>
  BY ServedIs, Zenon
<1>2. PICK k \in DOMAIN ClustersOf(e) : s = <<e, ClustersOf(e)[k].id>>
  BY <1>1
<1>3. s = <<s[1], s[2]>> /\ s[1] = e /\ s[2] = ClustersOf(e)[k].id
  BY <1>2
<1>4. e \in PlacesOf(ClustersOf(e)[k].id)
  <2>1. CASE e = 0
    <3>1. ClustersOf(e)[k].id # "Identify"
      BY <2>1, RootNames, RootRows
    <3> QED BY <2>1, <3>1 DEF PlacesOf
  <2>2. CASE e \in 1..3
    <3>1. ClustersOf(e)[k].id \in {"Identify", "Descriptor", MeasurementCluster(e)}
      BY <2>2, SensorNames, SensorRows
    <3>2. ClustersOf(e)[k].id \in {"Identify", "Descriptor"}
      BY <1>3, <3>1 DEF MeasurementCluster, CodeDriven
    <3> QED BY <2>2, <3>2 DEF PlacesOf
  <2> QED BY <2>1, <2>2, EndpointsAre
<1> QED BY <1>3, <1>4

LEMMA AtMostOneMore ==
  ASSUME NEW S, NEW x, NEW n \in Nat, IsFiniteSet(S), Cardinality(S) <= n
  PROVE  IsFiniteSet(S \cup {x}) /\ Cardinality(S \cup {x}) <= n + 1
<1>1. Cardinality(S) \in Nat
  BY FS_CardinalityType
<1>2. /\ IsFiniteSet(S \cup {x})
      /\ Cardinality(S \cup {x}) = IF x \in S THEN Cardinality(S) ELSE Cardinality(S) + 1
  BY FS_AddElement
<1> QED BY <1>1, <1>2

LEMMA AtMostTwo ==
  ASSUME NEW x, NEW y
  PROVE  IsFiniteSet({x, y}) /\ Cardinality({x, y}) <= 2
<1>1. IsFiniteSet({x}) /\ Cardinality({x}) = 1
  BY FS_Singleton, Zenon
<1>2. IsFiniteSet({x} \cup {y}) /\ Cardinality({x} \cup {y}) <= 1 + 1
  <2>1. Cardinality({x}) <= 1
    BY <1>1
  <2> QED BY <1>1, <2>1, AtMostOneMore
<1>3. {x} \cup {y} = {x, y}
  OBVIOUS
<1> QED BY <1>2, <1>3

LEMMA AtMostThree ==
  ASSUME NEW x, NEW y, NEW z
  PROVE  IsFiniteSet({x, y, z}) /\ Cardinality({x, y, z}) <= 3
<1>1. IsFiniteSet({x, y} \cup {z}) /\ Cardinality({x, y} \cup {z}) <= 2 + 1
  BY AtMostTwo, AtMostOneMore
<1>2. {x, y} \cup {z} = {x, y, z}
  OBVIOUS
<1> QED BY <1>1, <1>2

\* A server that is not registered yet always has room in its pool: gen_config.h
\* counts the endpoints as the endpoints' tables do.
LEMMA Room ==
  ASSUME NEW registered \in SUBSET Served, NEW s \in Served, s \notin registered, s[2] \in CodeDriven
  PROVE  Cardinality({ t \in registered : t[2] = s[2] }) < ServerEndpointCount(s[2])
<1> DEFINE c == s[2]
           T == { t \in registered : t[2] = c }
           at(e) == <<e, c>>
<1>1. \A t \in T : \E e \in PlacesOf(c) : t = at(e)
  BY Places
<1>2. s \notin T /\ \E e \in PlacesOf(c) : s = at(e)
  BY Places
<1> HIDE DEF T, at
<1>3. CASE c = "Descriptor"
  <2>1. \A t \in T : t \in {at(0), at(1), at(2), at(3)}
    BY <1>1, <1>3 DEF PlacesOf
  <2>2. PICK x, y, z : T \subseteq {x, y, z}
    <3>1. s \in {at(0), at(1), at(2), at(3)}
      BY <1>2, <1>3 DEF PlacesOf
    <3>2. CASE s = at(0)
      <4>1. T \subseteq {at(1), at(2), at(3)}
        BY <1>2, <2>1, <3>2
      <4> QED BY <4>1
    <3>3. CASE s = at(1)
      <4>1. T \subseteq {at(0), at(2), at(3)}
        BY <1>2, <2>1, <3>3
      <4> QED BY <4>1
    <3>4. CASE s = at(2)
      <4>1. T \subseteq {at(0), at(1), at(3)}
        BY <1>2, <2>1, <3>4
      <4> QED BY <4>1
    <3>5. CASE s = at(3)
      <4>1. T \subseteq {at(0), at(1), at(2)}
        BY <1>2, <2>1, <3>5
      <4> QED BY <4>1
    <3> QED BY <3>1, <3>2, <3>3, <3>4, <3>5
  <2>3. Cardinality(T) <= Cardinality({x, y, z}) /\ Cardinality(T) \in Nat
    BY AtMostThree, <2>2, FS_Subset, FS_CardinalityType
  <2>4. Cardinality({x, y, z}) \in Nat /\ Cardinality({x, y, z}) <= 3
    BY AtMostThree, FS_CardinalityType
  <2>5. Cardinality(T) < 4
    BY <2>3, <2>4
  <2> QED BY <1>3, <2>5 DEF ServerEndpointCount, T
<1>4. CASE c = "Identify"
  <2>1. \A t \in T : t \in {at(1), at(2), at(3)}
    BY <1>1, <1>4 DEF PlacesOf
  <2>2. PICK x, y : T \subseteq {x, y}
    <3>1. s \in {at(1), at(2), at(3)}
      BY <1>2, <1>4 DEF PlacesOf
    <3>2. CASE s = at(1)
      <4>1. T \subseteq {at(2), at(3)}
        BY <1>2, <2>1, <3>2
      <4> QED BY <4>1
    <3>3. CASE s = at(2)
      <4>1. T \subseteq {at(1), at(3)}
        BY <1>2, <2>1, <3>3
      <4> QED BY <4>1
    <3>4. CASE s = at(3)
      <4>1. T \subseteq {at(1), at(2)}
        BY <1>2, <2>1, <3>4
      <4> QED BY <4>1
    <3> QED BY <3>1, <3>2, <3>3, <3>4
  <2>3. Cardinality(T) <= Cardinality({x, y}) /\ Cardinality(T) \in Nat
    BY AtMostTwo, <2>2, FS_Subset, FS_CardinalityType
  <2>4. Cardinality({x, y}) \in Nat /\ Cardinality({x, y}) <= 2
    BY AtMostTwo, FS_CardinalityType
  <2>5. Cardinality(T) < 3
    BY <2>3, <2>4
  <2> QED BY <1>4, <2>5 DEF ServerEndpointCount, T
<1>5. CASE c \notin {"Descriptor", "Identify"}
  <2>1. T = {}
    BY <1>1, <1>2, <1>5 DEF PlacesOf
  <2>2. Cardinality(T) = 0
    BY <2>1, FS_EmptySet
  <2>3. ServerEndpointCount(c) = 1
    BY <1>5 DEF ServerEndpointCount, CodeDriven
  <2> QED BY <2>2, <2>3 DEF T
<1> QED BY <1>3, <1>4, <1>5

-----------------------------------------------------------------------------
(* Where the measurements are stored *)

LEMMA LocationsAre ==
  ASSUME NEW e \in 1..3
  PROVE  Locations[e] = 42 + 12 * e
<1> DEFINE m == MeasurementCluster(e)
           c == SensorClusters[3 * e]
           Found(k) == k \in DOMAIN ClustersOf(e) /\ ClustersOf(e)[k].id = m
           First(j) == j \in DOMAIN AttributesOf(c) /\ AttributesOf(c)[j].id = MeasuredValue
<1>1. Found(3) /\ \A k : Found(k) => k = 3
  <2>1. m \notin {"Identify", "Descriptor"}
    BY DEF MeasurementCluster
  <2>2. 3 \in DOMAIN ClustersOf(e) /\ DOMAIN ClustersOf(e) = 1..3
    BY SensorRows
  <2> QED BY <2>1, <2>2, SensorNames
<1>2. ClustersOf(e)[3] = c
  BY SensorRows
<1>3. First(1) /\ \A j : First(j) => j = 1
  BY MeasurementBytes
<1>4. AttributeSums(c)[0] = 0
  BY MeasurementBytes
<1> HIDE DEF c
<1> DEFINE k == CHOOSE i \in DOMAIN ClustersOf(e) : ClustersOf(e)[i].id = m
<1>5. k = 3
  BY <1>1
<1> DEFINE j == CHOOSE i \in DOMAIN AttributesOf(ClustersOf(e)[k]) :
                  AttributesOf(ClustersOf(e)[k])[i].id = MeasuredValue
<1>6. j = 1
  BY <1>2, <1>3, <1>5
<1>7. Find(e, m, MeasuredValue) = Offset(e, k, j)
  BY Zenon DEF Find
<1> HIDE DEF k, j
<1>8. Offset(e, 3, 1) = 42 + 12 * e
  <2>1. Offset(e, 3, 1) = BytesBefore[e] + ClusterSums(e)[3 - 1] + AttributeSums(c)[1 - 1]
    BY <1>2, OffsetIs
  <2> QED BY <2>1, <1>4, EndpointSums, SensorSums
<1>9. Locations[e] = Find(e, m, MeasuredValue)
  BY DEF Locations, Measured
<1> QED BY <1>5, <1>6, <1>7, <1>8, <1>9

\* The bytes of the measurement of endpoint e, and of no measurement
Own(e) == {42 + 12 * e, 43 + 12 * e}
Places90 == 0..89
Memories == [Places90 -> 0..255]

LEMMA MaxIs == 0..(ATTRIBUTE_MAX_SIZE - 1) = Places90
BY DEF ATTRIBUTE_MAX_SIZE, Places90

\* Where an attribute with bytes of its own is: the root endpoint's end where the
\* first sensor's begin, and a measured value has the first bytes of its endpoint.
LEMMA StoredPlaces ==
  ASSUME NEW s \in StoredAttributes
  PROVE  /\ s.at \in Nat /\ s.attribute.size \in Nat /\ s.attribute.size > 0
         /\ s.attribute.value \in Nat
         /\ \/ s.endpoint = 0 /\ s.at + s.attribute.size <= 54
            \/ /\ s.endpoint \in 1..3 /\ s.cluster = MeasurementCluster(s.endpoint)
               /\ s.at + s.attribute.size <= 54 + 12 * s.endpoint
               /\ \/ s.attribute.id = MeasuredValue /\ s.at = 42 + 12 * s.endpoint /\ s.attribute.value = 0
                  \/ s.attribute.id # MeasuredValue /\ s.at >= 44 + 12 * s.endpoint
<1>1. PICK e \in Endpoints : \E k \in DOMAIN ClustersOf(e) :
           \E j \in DOMAIN AttributesOf(ClustersOf(e)[k]) :
             /\ s = [endpoint |-> e, cluster |-> ClustersOf(e)[k].id,
                     attribute |-> AttributesOf(ClustersOf(e)[k])[j], at |-> Offset(e, k, j)]
             /\ Stored(AttributesOf(ClustersOf(e)[k])[j]) > 0
  BY StoredIs, Zenon
<1>2. PICK k \in DOMAIN ClustersOf(e) : \E j \in DOMAIN AttributesOf(ClustersOf(e)[k]) :
             /\ s = [endpoint |-> e, cluster |-> ClustersOf(e)[k].id,
                     attribute |-> AttributesOf(ClustersOf(e)[k])[j], at |-> Offset(e, k, j)]
             /\ Stored(AttributesOf(ClustersOf(e)[k])[j]) > 0
  BY <1>1, Zenon
<1>3. PICK j \in DOMAIN AttributesOf(ClustersOf(e)[k]) :
             /\ s = [endpoint |-> e, cluster |-> ClustersOf(e)[k].id,
                     attribute |-> AttributesOf(ClustersOf(e)[k])[j], at |-> Offset(e, k, j)]
             /\ Stored(AttributesOf(ClustersOf(e)[k])[j]) > 0
  BY <1>2, Zenon
<1>4. /\ s.endpoint = e /\ s.cluster = ClustersOf(e)[k].id
      /\ s.attribute = AttributesOf(ClustersOf(e)[k])[j] /\ s.at = Offset(e, k, j)
      /\ Stored(s.attribute) > 0
  BY <1>3
<1>5. CASE e = 0
  BY <1>4, <1>5, RootStored
<1>6. CASE e \in 1..3
  <2>1. k = 3 /\ s.cluster = MeasurementCluster(e)
    BY <1>4, <1>6, SensorStored, SensorNames
  <2> QED BY <1>4, <1>6, <2>1, SensorStored
<1> QED BY <1>5, <1>6, EndpointsAre

LEMMA DefaultsAre ==
  /\ Defaults \in Memories
  /\ \A e \in 1..3 : \A o \in Own(e) : Defaults[o] = 0
<1>1. ASSUME NEW o \in Places90
      PROVE  /\ DefaultByte(o) \in 0..255
             /\ \A e \in 1..3 : o \in Own(e) => DefaultByte(o) = 0
  <2> DEFINE here == { s \in StoredAttributes : s.at = o }
             first == CHOOSE s \in here : TRUE
  <2>1. DefaultByte(o) = IF here = {} THEN 0 ELSE first.attribute.value % 256
    BY Zenon DEF DefaultByte
  <2>2. CASE here = {}
    BY <2>1, <2>2
  <2>3. CASE here # {}
    <3>1. first \in here
      BY <2>3
    <3>2. first \in StoredAttributes /\ first.at = o
      BY <3>1
    <3> HIDE DEF first, here
    <3>3. DefaultByte(o) = first.attribute.value % 256
      BY <2>1, <2>3
    <3>4. first.attribute.value \in Nat
      BY <3>2, StoredPlaces
    <3>5. ASSUME NEW e \in 1..3, o \in Own(e)
          PROVE  first.attribute.value = 0
      BY <3>2, <3>5, StoredPlaces DEF Own
    <3> QED BY <3>3, <3>4, <3>5
  <2> QED BY <2>2, <2>3
<1>2. Defaults = [o \in Places90 |-> DefaultByte(o)]
  BY MaxIs DEF Defaults
<1>3. \A e \in 1..3 : Own(e) \subseteq Places90
  BY DEF Own, Places90
<1>4. Defaults \in Memories
  BY <1>1, <1>2, Zenon DEF Memories
<1> QED BY <1>1, <1>2, <1>3, <1>4

\* What is not a measured value is stored elsewhere.
LEMMA OthersElsewhere ==
  ASSUME NEW s \in StoredAttributes,
         ~(s.endpoint \in Measured /\ s.cluster = MeasurementCluster(s.endpoint)
             /\ s.attribute.id = MeasuredValue),
         NEW o \in s.at..(s.at + s.attribute.size - 1)
  PROVE  o \in Places90 /\ \A e \in 1..3 : o \notin Own(e)
BY StoredPlaces DEF Measured, Own, Places90

-----------------------------------------------------------------------------
(* What a publication changes *)

LEMMA BytesAre ==
  ASSUME NEW bits \in Uint16
  PROVE  /\ Len(Bytes(bits)) = 2 /\ DOMAIN Bytes(bits) = 1..2
         /\ Bytes(bits)[1] \in 0..255 /\ Bytes(bits)[2] \in 0..255
         /\ Bits(<<Bytes(bits)[1], Bytes(bits)[2]>>) = bits
         /\ Bytes(bits) = <<Bytes(bits)[1], Bytes(bits)[2]>>
<1> DEFINE low == bits % 256
           high == bits \div 256
<1>1. bits \in Int /\ 0 <= bits /\ bits <= 65535
  BY SMT, Uint16Is DEF UINT16_MAX
<1>2. Bytes(bits) = <<low, high>>
  BY Zenon DEF Bytes
<1>3. low \in Int /\ 0 <= low /\ low < 256
  BY SMT, <1>1
<1>4. high \in Int /\ bits = 256 * high + low
  BY SMT, <1>1
<1> HIDE DEF low, high
<1>5. low \in 0..255 /\ high \in 0..255 /\ low + 256 * high = bits
  BY SMT, <1>1, <1>3, <1>4
<1>6. Bits(<<low, high>>) = bits
  BY <1>5 DEF Bits
<1>7. Len(<<low, high>>) = 2 /\ DOMAIN <<low, high>> = 1..2
  OBVIOUS
<1>8. <<low, high>>[1] = low /\ <<low, high>>[2] = high
  OBVIOUS
<1>9. Bytes(bits)[1] = low /\ Bytes(bits)[2] = high
  BY <1>2, <1>8, Zenon
<1>10. Bytes(bits) = <<Bytes(bits)[1], Bytes(bits)[2]>>
  BY <1>2, <1>9, Zenon
<1>11. Bits(<<Bytes(bits)[1], Bytes(bits)[2]>>) = bits
  BY <1>6, <1>9, Zenon
<1>12. Len(Bytes(bits)) = 2 /\ DOMAIN Bytes(bits) = 1..2
  BY <1>2, <1>7, Zenon
<1> QED BY <1>5, <1>9, <1>10, <1>11, <1>12

LEMMA BitsInRange ==
  /\ \A x \in Int : ToUint16(x) \in Uint16
  /\ NullBits(TRUE) \in Uint16 /\ NullBits(FALSE) \in Uint16
<1>1. ASSUME NEW x \in Int PROVE ToUint16(x) \in Uint16
  <2>1. ToUint16(x) \in Int /\ 0 <= ToUint16(x) /\ ToUint16(x) < 65536
    BY SMT DEF ToUint16
  <2>2. ToUint16(x) \in Int /\ 0 <= ToUint16(x) /\ ToUint16(x) <= UINT16_MAX
    BY SMT, <2>1 DEF UINT16_MAX
  <2> QED BY Zenon, <2>2, InUint16
<1>2. NullBits(TRUE) \in Int /\ 0 <= NullBits(TRUE) /\ NullBits(TRUE) <= UINT16_MAX
  BY SMT DEF NullBits, UINT16_MAX
<1>3. NullBits(FALSE) \in Int /\ 0 <= NullBits(FALSE) /\ NullBits(FALSE) <= UINT16_MAX
  BY SMT DEF NullBits, UINT16_MAX
<1>4. NullBits(TRUE) \in Uint16
  BY Zenon, <1>2, InUint16
<1>5. NullBits(FALSE) \in Uint16
  BY Zenon, <1>3, InUint16
<1> QED BY <1>1, <1>4, <1>5, Zenon

\* Two memories that differ in the measurements of the endpoints E at most
Same(old, new, E) ==
  /\ new \in Memories
  /\ \A o \in Places90 : (\A e \in E : o \notin Own(e)) => new[o] = old[o]

\* What the host reads of endpoint e when the memory is m
ReadingIn(m, e) == HostReads(Signed(e), Bits(<<m[Locations[e]], m[Locations[e] + 1]>>))

LEMMA PutIs ==
  ASSUME NEW old \in Memories, NEW e \in 1..3, NEW bits \in Uint16
  PROVE  /\ Same(old, Put(old, e, bits), {e})
         /\ ReadingIn(Put(old, e, bits), e) = HostReads(Signed(e), bits)
<1> DEFINE b == Bytes(bits)
           at == 42 + 12 * e
           new == [o \in Places90 |-> IF o \in at..(at + Len(b) - 1) THEN b[o - at + 1] ELSE old[o]]
<1>1. Put(old, e, bits) = new
  BY LocationsAre, Zenon DEF Put, Written, Memories
<1>2. Len(b) = 2 /\ b[1] \in 0..255 /\ b[2] \in 0..255
  BY BytesAre
<1>3. Bits(<<b[1], b[2]>>) = bits
  BY BytesAre
<1> HIDE DEF b
<1>4. at \in Places90 /\ at + 1 \in Places90
  BY DEF Places90
<1>5. new[at] = b[1] /\ new[at + 1] = b[2]
  BY <1>2, <1>4
<1>6. \A o \in Places90 : o \notin Own(e) => new[o] = old[o]
  BY <1>2 DEF Own, Places90
<1>7. new \in Memories
  <2>1. ASSUME NEW o \in Places90
        PROVE  new[o] \in 0..255
    <3>1. CASE o \in Own(e)
      <4>1. o = at \/ o = at + 1
        BY <3>1 DEF Own
      <4> HIDE DEF new, at
      <4>2. new[at] \in 0..255 /\ new[at + 1] \in 0..255
        BY <1>2, <1>5
      <4> QED BY <4>1, <4>2
    <3>2. CASE o \notin Own(e)
      <4>1. new[o] = old[o]
        BY <1>6, <3>2, Zenon
      <4> HIDE DEF new
      <4> QED BY <4>1 DEF Memories
    <3> QED BY <3>1, <3>2
  <2> QED BY <2>1 DEF Memories
<1>8. ReadingIn(new, e) = HostReads(Signed(e), bits)
  BY <1>3, <1>5, LocationsAre, Zenon DEF ReadingIn
<1> QED BY <1>1, <1>6, <1>7, <1>8 DEF Same

LEMMA ReadingKept ==
  ASSUME NEW old, NEW new, NEW E \in SUBSET (1..3), Same(old, new, E), NEW d \in 1..3, d \notin E
  PROVE  ReadingIn(new, d) = ReadingIn(old, d)
<1>1. 42 + 12 * d \in Places90 /\ 43 + 12 * d \in Places90
  BY DEF Places90
<1>2. \A e \in E : 42 + 12 * d \notin Own(e) /\ 43 + 12 * d \notin Own(e)
  BY DEF Own
<1>3. new[42 + 12 * d] = old[42 + 12 * d] /\ new[43 + 12 * d] = old[43 + 12 * d]
  BY <1>1, <1>2 DEF Same
<1>4. Locations[d] = 42 + 12 * d /\ Locations[d] + 1 = 43 + 12 * d
  BY LocationsAre
<1> QED BY <1>3, <1>4, Zenon DEF ReadingIn

LEMMA SameChain ==
  ASSUME NEW old, NEW mid, NEW new, NEW E, NEW F, Same(old, mid, E), Same(mid, new, F)
  PROVE  Same(old, new, E \cup F)
BY DEF Same

LEMMA SetIs ==
  ASSUME NEW old \in Memories, NEW e \in 1..3, NEW x \in Int
  PROVE  /\ Same(old, Set(old, e, x), {e})
         /\ Representable(Signed(e), x) =>
              ReadingIn(Set(old, e, x), e) = HostReads(Signed(e), Bits(Bytes(ToUint16(x))))
<1>1. ToUint16(x) \in Uint16
  BY BitsInRange
<1>2. Bits(Bytes(ToUint16(x))) = ToUint16(x)
  BY <1>1, BytesAre
<1>3. CASE Representable(Signed(e), x)
  <2>1. Set(old, e, x) = Put(old, e, ToUint16(x))
    BY <1>3, Zenon DEF Set
  <2> QED BY <1>1, <1>2, <2>1, PutIs, Zenon
<1>4. CASE ~Representable(Signed(e), x)
  <2>1. Set(old, e, x) = old
    BY <1>4, Zenon DEF Set
  <2> QED BY <1>4, <2>1 DEF Same
<1> QED BY <1>3, <1>4

LEMMA SetNullIs ==
  ASSUME NEW old \in Memories, NEW e \in 1..3
  PROVE  /\ Same(old, SetNull(old, e), {e})
         /\ ReadingIn(SetNull(old, e), e) = Unread
<1>1. NullBits(Signed(e)) \in Uint16
  BY BitsInRange DEF Signed
<1> QED BY <1>1, PutIs, Zenon DEF SetNull, HostReads

LEMMA SetSigned ==
  ASSUME NEW old \in Memories, NEW e \in 1..2, NEW x \in Int16, Representable(TRUE, x)
  PROVE  Same(old, Set(old, e, x), {e}) /\ ReadingIn(Set(old, e, x), e) = x
<1>1. e \in 1..3 /\ x \in Int
  BY Int16Is
<1>2. Signed(e)
  BY DEF Signed, kGravityEndpoint
<1>3. Signed(e) = TRUE
  BY <1>2, Zenon DEF Signed
<1>4. HostReads(TRUE, Bits(Bytes(ToUint16(x)))) = x
  BY HostReadsWhatWasSet, Zenon
<1> QED BY <1>1, <1>3, <1>4, SetIs, Zenon

LEMMA SetUnsigned ==
  ASSUME NEW old \in Memories, NEW x \in Uint16
  PROVE  /\ Same(old, Set(old, 3, x), {3})
         /\ Representable(FALSE, x) => ReadingIn(Set(old, 3, x), 3) = x
         /\ ~Representable(FALSE, x) => Set(old, 3, x) = old
<1>1. 3 \in 1..3 /\ x \in Int
  BY Uint16Is
<1>2. Signed(3) = FALSE
  BY Zenon DEF Signed, kGravityEndpoint
<1>3. Same(old, Set(old, 3, x), {3})
  BY <1>1, SetIs, Zenon
<1>4. ASSUME Representable(FALSE, x)
      PROVE  ReadingIn(Set(old, 3, x), 3) = x
  <2>1. HostReads(FALSE, Bits(Bytes(ToUint16(x)))) = x
    BY <1>4, HostReadsWhatWasSet, Zenon
  <2> QED BY <1>1, <1>2, <1>4, <2>1, SetIs, Zenon
<1>5. ASSUME ~Representable(FALSE, x)
      PROVE  Set(old, 3, x) = old
  BY <1>2, <1>5, Zenon DEF Set
<1> QED BY <1>3, <1>4, <1>5, Zenon

\* A Tilt's sample has the temperature and the gravity of its advertisement.
LEMMA SampleIs ==
  ASSUME NEW s \in TiltData
  PROVE  TiltTempF(s) \in Uint16 /\ TiltGravity(s) \in Uint16
<1>1. PICK t \in TiltTemps, g \in Gravities :
        s = [len |-> 25, tilt |-> TRUE, bytes |-> <<t \div 256, t % 256, g \div 256, g % 256>>]
  BY DEF TiltData
<1>2. t \in Nat /\ g \in Nat /\ t \in Uint16 /\ g \in Uint16
  BY ServerAssumption DEF Uint16
<1>3. TiltTempF(s) = t
  BY <1>1, <1>2 DEF TiltTempF, BigEndian
<1>4. TiltGravity(s) = g
  BY <1>1, <1>2 DEF TiltGravity, BigEndian
<1> QED BY <1>2, <1>3, <1>4

\* What ReadingsTrue says of endpoint e when the host reads x and s was published
True(e, x, s) ==
  CASE s = Never -> x = 0
    [] s = None -> x = Unread
    [] s \notin {None, Never} /\ e = kAmbientEndpoint -> AmbientAccurate(x, s)
    [] s \notin {None, Never} /\ e = kInternalEndpoint -> TempAccurate(x, TiltTempF(s))
    [] s \notin {None, Never} /\ e = kGravityEndpoint -> x = TiltGravity(s)

LEMMA ReadingsTrueIs ==
  ReadingsTrue <=> \A e \in 1..3 : True(e, ReadingIn(memory, e), source[e])
BY Zenon DEF ReadingsTrue, True, ReadingIn, HostReading, Measured

LEMMA TrueOfSample ==
  ASSUME NEW s, s # None, s # Never, NEW x
  PROVE  /\ AmbientAccurate(x, s) => True(1, x, s)
         /\ TempAccurate(x, TiltTempF(s)) => True(2, x, s)
         /\ x = TiltGravity(s) => True(3, x, s)
<1>1. s \notin {None, Never}
  OBVIOUS
<1>2. /\ kAmbientEndpoint = 1 /\ kInternalEndpoint = 2 /\ kGravityEndpoint = 3
      /\ 1 # 2 /\ 1 # 3 /\ 2 # 3
  BY DEF kAmbientEndpoint, kInternalEndpoint, kGravityEndpoint
<1>3. AmbientAccurate(x, s) => True(1, x, s)
  BY <1>1, <1>2, Zenon DEF True
<1>4. TempAccurate(x, TiltTempF(s)) => True(2, x, s)
  BY <1>1, <1>2, Zenon DEF True
<1>5. x = TiltGravity(s) => True(3, x, s)
  BY <1>1, <1>2, Zenon DEF True
<1> QED BY <1>3, <1>4, <1>5, Zenon

LEMMA TrueOfNothing ==
  /\ \A e : True(e, Unread, None)
  /\ \A e : True(e, 0, Never)
BY HistoryAssumption DEF True

LEMMA TiltPublished ==
  ASSUME NEW old \in Memories, NEW s \in TiltData
  PROVE  LET new == Set(Set(old, kInternalEndpoint, TiltSample(s).temp),
                        kGravityEndpoint, TiltSample(s).gravity)
         IN  /\ Same(old, new, {2, 3})
             /\ True(2, ReadingIn(new, 2), s)
             /\ Representable(FALSE, TiltSample(s).gravity) => True(3, ReadingIn(new, 3), s)
             /\ ~Representable(FALSE, TiltSample(s).gravity) => ReadingIn(new, 3) = ReadingIn(old, 3)
<1> DEFINE centi == CentiOf(TiltTempF(s))
           g == TiltGravity(s)
           mid == Set(old, 2, centi)
           new == Set(mid, 3, g)
<1>1. s # None /\ s # Never
  BY HistoryAssumption
<1>2. centi \in Int16 /\ TempAccurate(centi, TiltTempF(s)) /\ Representable(TRUE, centi)
  BY SampleIs, TiltTempRight, Zenon
<1>3. g \in Uint16 /\ g \in Int /\ centi \in Int
  BY <1>2, SampleIs, Uint16Is, Int16Is, Zenon
<1> HIDE DEF centi, g
<1>5. Same(old, mid, {2}) /\ ReadingIn(mid, 2) = centi
  <2>1. 2 \in 1..2
    OBVIOUS
  <2> QED BY <1>2, <2>1, SetSigned, Zenon
<1>6. mid \in Memories
  BY <1>5 DEF Same
<1> HIDE DEF mid
<1>7. /\ Same(mid, new, {3})
      /\ Representable(FALSE, g) => ReadingIn(new, 3) = g
      /\ ~Representable(FALSE, g) => new = mid
  BY <1>3, <1>6, SetUnsigned
<1> HIDE DEF new
<1>8. ReadingIn(new, 2) = centi
  BY <1>5, <1>7, ReadingKept
<1>9. Same(old, new, {2, 3})
  <2>1. {2} \cup {3} = {2, 3}
    OBVIOUS
  <2> QED BY <1>5, <1>7, <2>1, SameChain
<1>10. True(2, ReadingIn(new, 2), s)
  BY <1>1, <1>2, <1>8, TrueOfSample, Zenon
<1>11. Representable(FALSE, g) => True(3, ReadingIn(new, 3), s)
  BY <1>1, <1>7, TrueOfSample, Zenon DEF g
<1>13. ~Representable(FALSE, g) => ReadingIn(new, 3) = ReadingIn(old, 3)
  BY <1>5, <1>7, ReadingKept
<1>12. TiltSample(s).temp = centi /\ TiltSample(s).gravity = g
  BY DEF TiltSample, centi, g
<1> QED BY <1>9, <1>10, <1>11, <1>12, <1>13 DEF kInternalEndpoint, kGravityEndpoint, new, mid

LEMMA TiltLost ==
  ASSUME NEW old \in Memories
  PROVE  LET new == SetNull(SetNull(old, kInternalEndpoint), kGravityEndpoint)
         IN  /\ Same(old, new, {2, 3})
             /\ True(2, ReadingIn(new, 2), None) /\ True(3, ReadingIn(new, 3), None)
<1> DEFINE mid == SetNull(old, 2)
           new == SetNull(mid, 3)
<1>1. Same(old, mid, {2}) /\ ReadingIn(mid, 2) = Unread
  BY SetNullIs
<1>2. mid \in Memories
  BY <1>1 DEF Same
<1> HIDE DEF mid
<1>3. Same(mid, new, {3}) /\ ReadingIn(new, 3) = Unread
  BY <1>2, SetNullIs
<1> HIDE DEF new
<1>4. ReadingIn(new, 2) = Unread
  BY <1>1, <1>3, ReadingKept
<1>5. Same(old, new, {2, 3})
  <2>1. {2} \cup {3} = {2, 3}
    OBVIOUS
  <2> QED BY <1>1, <1>3, <2>1, SameChain
<1>6. True(2, ReadingIn(new, 2), None) /\ True(3, ReadingIn(new, 3), None)
  BY <1>3, <1>4, TrueOfNothing, Zenon
<1> QED BY <1>5, <1>6 DEF kInternalEndpoint, kGravityEndpoint, new, mid

LEMMA AmbientPublished ==
  ASSUME NEW old \in Memories, NEW micro \in Ambients, Measurable(micro)
  PROVE  LET new == Set(old, kAmbientEndpoint, AmbientCenti(micro))
         IN  Same(old, new, {1}) /\ True(1, ReadingIn(new, 1), micro)
<1> DEFINE centi == AmbientCenti(micro)
           new == Set(old, 1, centi)
<1>1. micro # None /\ micro # Never
  BY HistoryAssumption
<1>2. micro \in Int
  BY DEF Measurable
<1>3. centi \in Int16 /\ AmbientAccurate(centi, micro) /\ Representable(TRUE, centi)
  BY <1>2, AmbientRight, Zenon
<1> HIDE DEF centi
<1>6. Same(old, new, {1}) /\ ReadingIn(new, 1) = centi
  <2>1. 1 \in 1..2
    OBVIOUS
  <2> QED BY <1>3, <2>1, SetSigned, Zenon
<1> HIDE DEF new
<1>7. True(1, ReadingIn(new, 1), micro)
  BY <1>1, <1>3, <1>6, TrueOfSample, Zenon
<1> QED BY <1>6, <1>7 DEF kAmbientEndpoint, new, centi

-----------------------------------------------------------------------------
(* The start and the end of the server *)

Started(s) == s \in inited /\ (s[2] \in CodeDriven => s \in instances)

PhaseInv ==
  /\ phase \in {"starting", "up", "stopping", "down"} /\ position \in 0..20
  /\ plugins \in {{}, AllPlugins}
  /\ plugins = {} => phase = "starting" /\ position = 0

\* How far the server has come: what has been gone through is registered while it
\* starts, and is not any longer while it stops.
ServerInv ==
  /\ PhaseInv
  /\ inited \in SUBSET Served /\ instances \in SUBSET Served
  /\ \A s \in instances : s[2] \in CodeDriven
  /\ phase = "starting" => \A n \in 0..(position - 1) : Started(ClusterAt(n))
  /\ phase = "up" => position = 0 /\ \A s \in Served : Started(s)
  /\ phase = "stopping" => \A n \in 0..(position - 1) : ClusterAt(n) \notin instances
  /\ phase = "down" => instances = {}

LEMMA ServerInit == Init => ServerInv
BY DEF Init, ServerInv, PhaseInv

LEMMA ClusterStarts ==
  ASSUME ServerInv, InitializeCluster
  PROVE  ServerInv'
<1>1. position \in 0..19 /\ position' = position + 1 /\ phase = "starting" /\ phase' = "starting"
  BY LengthIs DEF ServerInv, PhaseInv, InitializeCluster
<1>2. Here = ClusterAt(position) /\ Here \in Served
  BY <1>1, AtServed DEF Here
<1>3. Here[2] \in EmberInitCallback
  <2>1. PICK e \in Endpoints : \E k \in DOMAIN ClustersOf(e) : Here = <<e, ClustersOf(e)[k].id>>
    BY <1>2, ServedIs, Zenon
  <2>2. PICK k \in DOMAIN ClustersOf(e) : Here = <<e, ClustersOf(e)[k].id>>
    BY <2>1, Zenon
  <2>3. Here[2] = ClustersOf(e)[k].id
    BY <2>2
  <2> QED BY <2>3, NamesKnown
<1>4. inited' = inited \cup {Here}
  BY <1>3 DEF InitializeCluster
<1>5. /\ \A s \in instances' : s \in instances \/ (s = Here /\ Here[2] \in CodeDriven)
      /\ instances \subseteq instances'
  BY DEF InitializeCluster, Registers, InitCallback
<1>6. Here[2] \in CodeDriven => Here \in instances'
  <2>1. SUFFICES ASSUME Here[2] \in CodeDriven, Here \notin instances PROVE Here \in instances'
    BY <1>5
  <2>2. Cardinality({ s \in instances : s[2] = Here[2] }) < ServerEndpointCount(Here[2])
    BY <1>2, <2>1, Room DEF ServerInv
  <2> QED BY <2>1, <2>2 DEF InitializeCluster, Registers, InitCallback
<1>7. PhaseInv'
  BY <1>1 DEF ServerInv, PhaseInv, InitializeCluster
<1>8. \A n \in 0..(position' - 1) : Started(ClusterAt(n))'
  <2> TAKE n \in 0..(position' - 1)
  <2>1. CASE n = position
    BY <1>2, <1>4, <1>6, <2>1 DEF Started
  <2>2. CASE n # position
    <3>1. n \in 0..(position - 1)
      BY <1>1, <2>2
    <3>2. Started(ClusterAt(n))
      BY <1>1, <3>1 DEF ServerInv
    <3> QED BY <1>4, <1>5, <3>2 DEF Started
  <2> QED BY <2>1, <2>2
<1> QED BY <1>1, <1>2, <1>4, <1>5, <1>7, <1>8 DEF ServerInv

LEMMA ClusterStops ==
  ASSUME ServerInv, ShutDownCluster
  PROVE  ServerInv'
<1>1. position \in 0..19 /\ position' = position + 1 /\ phase = "stopping" /\ phase' = "stopping"
  BY LengthIs DEF ServerInv, PhaseInv, ShutDownCluster
<1>2. Here = ClusterAt(position)
  BY DEF Here
<1>3. instances' \subseteq instances /\ Here \notin instances'
  BY DEF ServerInv, ShutDownCluster, ShutdownCallback
<1>4. PhaseInv'
  BY <1>1 DEF ServerInv, PhaseInv, ShutDownCluster
<1>5. \A n \in 0..(position' - 1) : ClusterAt(n) \notin instances'
  <2> TAKE n \in 0..(position' - 1)
  <2>1. CASE n = position
    BY <1>2, <1>3, <2>1
  <2>2. CASE n # position
    <3>1. n \in 0..(position - 1)
      BY <1>1, <2>2
    <3> QED BY <1>1, <1>3, <3>1 DEF ServerInv
  <2> QED BY <2>1, <2>2
<1>6. inited' = inited
  BY DEF ShutDownCluster
<1> QED BY <1>1, <1>3, <1>4, <1>5, <1>6 DEF ServerInv

LEMMA ServerStep ==
  ASSUME ServerInv, [Next]_vars
  PROVE  ServerInv'
<1>1. CASE InitializePlugins
  <2>1. plugins' = AllPlugins
    BY <1>1, Zenon DEF InitializePlugins, AllPlugins
  <2>2. AllPlugins # {}
    BY PluginNames
  <2> QED BY <1>1, <2>1, <2>2 DEF InitializePlugins, ServerInv, PhaseInv, Started
<1>2. CASE InitializeCluster
  BY <1>2, ClusterStarts
<1>3. CASE StartDone
  <2>1. phase = "starting" /\ phase' = "up" /\ position = 20 /\ position' = 0
    BY <1>3, LengthIs DEF StartDone
  <2>2. plugins' = plugins /\ inited' = inited /\ instances' = instances
    BY <1>3 DEF StartDone
  <2>3. ASSUME NEW s \in Served
        PROVE  Started(s)
    <3>1. PICK n \in 0..19 : ClusterAt(n) = s
      BY ServedAt
    <3> QED BY <2>1, <3>1 DEF ServerInv
  <2>4. PhaseInv'
    BY <2>1, <2>2 DEF ServerInv, PhaseInv
  <2> QED BY <2>1, <2>2, <2>3, <2>4 DEF ServerInv, Started
<1>4. CASE Stop
  BY <1>4 DEF Stop, ServerInv, PhaseInv, Started
<1>5. CASE ShutDownCluster
  BY <1>5, ClusterStops
<1>6. CASE StopDone
  <2>1. phase = "stopping" /\ phase' = "down" /\ position = 20
    BY <1>6, LengthIs DEF StopDone
  <2>2. position' = position /\ plugins' = plugins /\ inited' = inited /\ instances' = instances
    BY <1>6 DEF StopDone
  <2>3. instances = {}
    <3>1. ASSUME NEW s \in instances PROVE FALSE
      <4>1. PICK n \in 0..19 : ClusterAt(n) = s
        BY ServedAt DEF ServerInv
      <4> QED BY <2>1, <4>1 DEF ServerInv
    <3> QED BY <3>1
  <2>4. PhaseInv'
    BY <2>1, <2>2 DEF ServerInv, PhaseInv
  <2> QED BY <2>1, <2>2, <2>3, <2>4 DEF ServerInv, Started
<1>7. CASE Reboot
  BY <1>7 DEF Reboot, ServerInv, PhaseInv
<1>8. CASE UNCHANGED serverVars
  BY <1>8 DEF serverVars, ServerInv, PhaseInv, Started
<1>9. CASE \E mfg \in TiltData \cup OtherData : Advert(mfg)
  BY <1>8, <1>9 DEF Advert
<1>10. CASE \E fresh \in BOOLEAN : ReportTilt(fresh)
  BY <1>8, <1>10 DEF ReportTilt
<1>11. CASE \E micro \in Ambients \cup {None} : ReportAmbient(micro)
  BY <1>8, <1>11 DEF ReportAmbient
<1>12. CASE Clients
  BY <1>8, <1>12 DEF Clients, ClientWrite
<1>13. CASE UNCHANGED vars
  BY <1>8, <1>13 DEF vars, serverVars
<1> QED BY <1>1, <1>2, <1>3, <1>4, <1>5, <1>6, <1>7, <1>9, <1>10, <1>11, <1>12, <1>13 DEF Next, Serve

-----------------------------------------------------------------------------
(* What the application and the clients write *)

Published == TiltData \cup {None, Never}

DataInv ==
  /\ Same(Defaults, memory, 1..3)
  /\ ready \in BOOLEAN /\ sample \in TiltData \cup {None}
  /\ DOMAIN source = 1..3
  /\ source[1] \in Ambients \cup {None, Never}
  /\ source[2] \in Published /\ source[3] \in Published

LEMMA AmbientsAre == Ambients \subseteq Int
BY ServerAssumption DEF Ambients

LEMMA AmbientCentiInt ==
  ASSUME NEW micro \in Int
  PROVE  AmbientCenti(micro) \in Int
BY DEF AmbientCenti, ToInt16, Val1, Val2, Quotient, Micro

LEMMA SameFrom ==
  ASSUME NEW new, NEW E \in SUBSET (1..3), Same(Defaults, memory, 1..3), Same(memory, new, E)
  PROVE  Same(Defaults, new, 1..3)
<1>1. (1..3) \cup E = 1..3
  OBVIOUS
<1> QED BY <1>1, SameChain

\* A report writes the two bytes of its own measurements.
LEMMA TiltWrites ==
  ASSUME NEW fresh \in BOOLEAN, ReportTilt(fresh), DataInv
  PROVE  Same(memory, memory', {2, 3})
<1>1. memory \in Memories
  BY DEF DataInv, Same
<1>2. CASE fresh
  <2>1. sample \in TiltData
    BY <1>2 DEF ReportTilt, DataInv
  <2>2. memory' = Set(Set(memory, kInternalEndpoint, TiltSample(sample).temp),
                      kGravityEndpoint, TiltSample(sample).gravity)
    BY <1>2, Zenon DEF ReportTilt, TiltReported
  <2> QED BY <1>1, <2>1, <2>2, TiltPublished, Zenon
<1>3. CASE ~fresh
  <2>1. memory' = SetNull(SetNull(memory, kInternalEndpoint), kGravityEndpoint)
    BY <1>3, Zenon DEF ReportTilt, TiltReported
  <2> QED BY <1>1, <2>1, TiltLost, Zenon
<1> QED BY <1>2, <1>3

LEMMA AmbientWrites ==
  ASSUME NEW micro \in Ambients \cup {None}, ReportAmbient(micro), DataInv
  PROVE  Same(memory, memory', {1})
<1>1. memory \in Memories
  BY DEF DataInv, Same
<1>2. CASE micro = None
  <2>1. memory' = SetNull(memory, 1)
    BY <1>2, Zenon DEF ReportAmbient, kAmbientEndpoint
  <2>2. 1 \in 1..3
    OBVIOUS
  <2> QED BY <1>1, <2>1, <2>2, SetNullIs, Zenon
<1>3. CASE micro # None
  <2>1. memory' = Set(memory, 1, AmbientCenti(micro))
    BY <1>3, Zenon DEF ReportAmbient, kAmbientEndpoint
  <2>2. AmbientCenti(micro) \in Int /\ 1 \in 1..3
    BY <1>3, AmbientsAre, AmbientCentiInt
  <2> QED BY <1>1, <2>1, <2>2, SetIs, Zenon
<1> QED BY <1>2, <1>3

\* What a client may write is kept by a code-driven server, and there is one:
\* nothing of it goes into the SDK's storage.
LEMMA ClientsKeep ==
  ASSUME Clients, ServerInv
  PROVE  memory' = memory
<1>1. PICK e \in Endpoints : \E k \in DOMAIN ClustersOf(e) :
        \E j \in DOMAIN AttributesOf(ClustersOf(e)[k]), i \in DOMAIN Privileges :
          ClientWrite(e, k, j, Privileges[i])
  BY Zenon DEF Clients
<1>2. PICK k \in DOMAIN ClustersOf(e) :
        \E j \in DOMAIN AttributesOf(ClustersOf(e)[k]), i \in DOMAIN Privileges :
          ClientWrite(e, k, j, Privileges[i])
  BY <1>1, Zenon
<1>3. PICK j \in DOMAIN AttributesOf(ClustersOf(e)[k]), i \in DOMAIN Privileges :
        ClientWrite(e, k, j, Privileges[i])
  BY <1>2, Zenon
<1> DEFINE cluster == ClustersOf(e)[k]
           a == AttributesOf(cluster)[j]
<1>4. /\ phase = "up" /\ Accepts(e, cluster, a, Privileges[i])
      /\ memory' = IF StoredByWrite(e, cluster, a)
                   THEN Written(memory, Offset(e, k, j), Times(a.size, 255)) ELSE memory
  BY <1>3, Zenon DEF ClientWrite
<1>5. ~StoredByWrite(e, cluster, a)
  <2> SUFFICES ASSUME <<e, cluster.id>> \notin instances, Stored(a) > 0 PROVE FALSE
    BY Zenon DEF StoredByWrite
  <2>1. cluster.id \in CodeDriven
    <3>1. "writable" \in a.mask
      BY <1>4, Zenon DEF Accepts
    <3> QED BY <3>1, WritableStored, Zenon
  <2>2. <<e, cluster.id>> \in Served /\ <<e, cluster.id>>[2] = cluster.id
    BY ServedIs
  <2> QED BY <1>4, <2>1, <2>2, Zenon DEF ServerInv, Started
<1> QED BY <1>4, <1>5, Zenon

LEMMA NothingPublished ==
  ASSUME source = [e \in Measured |-> Never]
  PROVE  DOMAIN source = 1..3 /\ \A e \in 1..3 : source[e] = Never
BY DEF Measured

LEMMA DataInit == Init => DataInv
<1> SUFFICES ASSUME Init PROVE DataInv
  OBVIOUS
<1>1. Same(Defaults, memory, 1..3)
  BY DefaultsAre DEF Same, Init
<1>2. DOMAIN source = 1..3 /\ source[1] = Never /\ source[2] = Never /\ source[3] = Never
  BY NothingPublished DEF Init
<1> QED BY <1>1, <1>2 DEF Init, DataInv, Published

\* What the sources are after a report
LEMMA SourceOfTilt ==
  ASSUME DataInv, NEW fresh \in BOOLEAN, ReportTilt(fresh)
  PROVE  /\ DOMAIN source' = 1..3 /\ source'[1] = source[1]
         /\ fresh => /\ sample \in TiltData /\ source'[2] = sample
                     /\ source'[3] = IF Representable(FALSE, TiltSample(sample).gravity)
                                    THEN sample ELSE source[3]
         /\ ~fresh => source'[2] = None /\ source'[3] = None
<1> DEFINE s == IF fresh THEN sample ELSE None
           taken == Representable(FALSE, TiltSample(sample).gravity)
           g == IF ~fresh THEN None ELSE IF taken THEN sample ELSE source[3]
<1>1. source' = [source EXCEPT ![2] = s, ![3] = g]
  BY Zenon DEF ReportTilt, kInternalEndpoint, kGravityEndpoint
<1>2. DOMAIN source = 1..3 /\ (fresh => sample \in TiltData)
  BY DEF DataInv, ReportTilt
<1>3. DOMAIN source' = 1..3 /\ source'[1] = source[1] /\ source'[2] = s /\ source'[3] = g
  <2> HIDE DEF s, g
  <2> QED BY <1>1, <1>2
<1>4. fresh => s = sample /\ g = (IF taken THEN sample ELSE source[3])
  BY Zenon
<1>5. ~fresh => s = None /\ g = None
  BY Zenon
<1> HIDE DEF s, g
<1> QED BY <1>2, <1>3, <1>4, <1>5, Zenon

LEMMA SourceOfAmbient ==
  ASSUME DataInv, NEW micro, ReportAmbient(micro)
  PROVE  /\ DOMAIN source' = 1..3 /\ source'[1] = micro
         /\ source'[2] = source[2] /\ source'[3] = source[3]
BY DEF DataInv, ReportAmbient, kAmbientEndpoint

LEMMA DataStep ==
  ASSUME ServerInv, DataInv, [Next]_vars
  PROVE  DataInv'
<1>1. CASE UNCHANGED <<memory, ready, sample, source>>
  BY <1>1, Zenon DEF DataInv
<1>2. ASSUME NEW mfg \in TiltData \cup OtherData, Advert(mfg)
      PROVE  DataInv'
  <2>1. mfg \in TiltData
    BY <1>2 DEF Advert, IsTilt, OtherData, TILT_IBEACON_MIN_LEN
  <2>2. sample' = mfg /\ memory' = memory /\ ready' = ready /\ source' = source
    BY <1>2, Zenon DEF Advert
  <2> QED BY <2>1, <2>2 DEF DataInv
<1>3. ASSUME NEW fresh \in BOOLEAN, ReportTilt(fresh)
      PROVE  DataInv'
  <2>1. Same(Defaults, memory', 1..3)
    BY <1>3, TiltWrites, SameFrom DEF DataInv
  <2>2. ready' = ready /\ sample' = sample
    BY <1>3, Zenon DEF ReportTilt
  <2>3. /\ DOMAIN source' = 1..3 /\ source'[1] = source[1]
        /\ source'[2] \in Published /\ source'[3] \in Published
    <3>1. source[3] \in Published
      BY DEF DataInv
    <3> QED BY <1>3, <3>1, SourceOfTilt DEF Published
  <2> QED BY <2>1, <2>2, <2>3 DEF DataInv
<1>4. ASSUME NEW micro \in Ambients \cup {None}, ReportAmbient(micro)
      PROVE  DataInv'
  <2>1. Same(Defaults, memory', 1..3)
    BY <1>4, AmbientWrites, SameFrom DEF DataInv
  <2>2. ready' = ready /\ sample' = sample
    BY <1>4, Zenon DEF ReportAmbient
  <2>3. /\ DOMAIN source' = 1..3 /\ source'[1] = micro
        /\ source'[2] = source[2] /\ source'[3] = source[3]
    BY <1>4, SourceOfAmbient
  <2> QED BY <2>1, <2>2, <2>3 DEF DataInv
<1>5. CASE Clients
  <2>1. ready' = ready /\ sample' = sample /\ source' = source
    BY <1>5, Zenon DEF Clients, ClientWrite, appVars
  <2> QED BY <1>1, <1>5, <2>1, ClientsKeep
<1>6. CASE Reboot
  <2>1. Same(Defaults, memory', 1..3)
    BY <1>6, DefaultsAre DEF Same, Reboot
  <2>2. DOMAIN source' = 1..3 /\ source'[1] = Never /\ source'[2] = Never /\ source'[3] = Never
    BY <1>6 DEF Reboot, Measured
  <2>3. ready' \in BOOLEAN /\ sample' = None
    BY <1>6, Zenon DEF Reboot
  <2> QED BY <2>1, <2>2, <2>3 DEF DataInv, Published
<1>7. CASE Serve
  BY <1>1, <1>7, Zenon DEF Serve, InitializePlugins, InitializeCluster, StartDone, Stop, ShutDownCluster,
                           StopDone, appVars
<1>8. CASE UNCHANGED vars
  BY <1>1, <1>8, Zenon DEF vars
<1> QED BY <1>2, <1>3, <1>4, <1>5, <1>6, <1>7, <1>8, Zenon DEF Next

-----------------------------------------------------------------------------
(* Readings *)

ReadingInv == \A e \in 1..3 : True(e, ReadingIn(memory, e), source[e])

LEMMA DefaultReads ==
  ASSUME NEW e \in 1..3
  PROVE  ReadingIn(Defaults, e) = 0
<1>1. Defaults[42 + 12 * e] = 0 /\ Defaults[43 + 12 * e] = 0
  BY DefaultsAre DEF Own
<1>2. Locations[e] = 42 + 12 * e /\ Locations[e] + 1 = 43 + 12 * e
  BY LocationsAre
<1>3. ReadingIn(Defaults, e) = HostReads(Signed(e), Bits(<<0, 0>>))
  BY <1>1, <1>2, Zenon DEF ReadingIn
<1>4. HostReads(Signed(e), Bits(<<0, 0>>)) = 0
  BY DEF HostReads, Bits, NullBits, ToInt16, Signed
<1> QED BY <1>3, <1>4

LEMMA ReadingsBegin ==
  ASSUME memory = Defaults, source = [e \in Measured |-> Never]
  PROVE  ReadingInv
<1>1. ASSUME NEW e \in 1..3
      PROVE  True(e, ReadingIn(memory, e), source[e])
  <2>1. ReadingIn(memory, e) = 0 /\ source[e] = Never
    BY DefaultReads, NothingPublished
  <2> QED BY <2>1, TrueOfNothing, Zenon
<1> QED BY <1>1, Zenon DEF ReadingInv

\* A report changes what the host reads of its own endpoints to what it published,
\* and nothing of the others.
LEMMA ReadingStep ==
  ASSUME ServerInv, DataInv, ReadingInv, [Next]_vars, \A micro \in Ambients : Measurable(micro)
  PROVE  ReadingInv'
<1>1. CASE UNCHANGED <<memory, source>>
  BY <1>1, Zenon DEF ReadingInv, ReadingIn
<1>2. ASSUME NEW fresh \in BOOLEAN, ReportTilt(fresh)
      PROVE  ReadingInv'
  <2>1. memory \in Memories
    BY DEF DataInv, Same
  <2>2. True(1, ReadingIn(memory', 1), source'[1])
    <3>1. ReadingIn(memory', 1) = ReadingIn(memory, 1)
      <4>1. {2, 3} \in SUBSET (1..3) /\ 1 \in 1..3 /\ 1 \notin {2, 3}
        OBVIOUS
      <4> QED BY <1>2, <4>1, TiltWrites, ReadingKept, Zenon
    <3>2. source'[1] = source[1]
      BY <1>2, SourceOfTilt, Zenon
    <3>3. 1 \in 1..3
      OBVIOUS
    <3> QED BY <3>1, <3>2, <3>3, Zenon DEF ReadingInv
  <2>3. True(2, ReadingIn(memory', 2), source'[2]) /\ True(3, ReadingIn(memory', 3), source'[3])
    <3>1. CASE fresh
      <4>1. /\ sample \in TiltData /\ source'[2] = sample
            /\ source'[3] = IF Representable(FALSE, TiltSample(sample).gravity)
                           THEN sample ELSE source[3]
        BY <1>2, <3>1, SourceOfTilt
      <4>2. memory' = Set(Set(memory, kInternalEndpoint, TiltSample(sample).temp),
                          kGravityEndpoint, TiltSample(sample).gravity)
        BY <1>2, <3>1, Zenon DEF ReportTilt, TiltReported
      <4>3. /\ True(2, ReadingIn(memory', 2), sample)
            /\ Representable(FALSE, TiltSample(sample).gravity) => True(3, ReadingIn(memory', 3), sample)
            /\ ~Representable(FALSE, TiltSample(sample).gravity) =>
                 ReadingIn(memory', 3) = ReadingIn(memory, 3)
        BY <2>1, <4>1, <4>2, TiltPublished, Zenon
      <4>4. True(3, ReadingIn(memory, 3), source[3])
        BY DEF ReadingInv
      <4> QED BY <4>1, <4>3, <4>4, Zenon
    <3>2. CASE ~fresh
      <4>1. source'[2] = None /\ source'[3] = None
        BY <1>2, <3>2, SourceOfTilt
      <4>2. memory' = SetNull(SetNull(memory, kInternalEndpoint), kGravityEndpoint)
        BY <1>2, <3>2, Zenon DEF ReportTilt, TiltReported
      <4> QED BY <2>1, <4>1, <4>2, TiltLost, Zenon
    <3> QED BY <3>1, <3>2
  <2>4. ASSUME NEW e \in 1..3
        PROVE  True(e, ReadingIn(memory', e), source'[e])
    <3>1. e = 1 \/ e = 2 \/ e = 3
      OBVIOUS
    <3> QED BY <2>2, <2>3, <3>1, Zenon
  <2> QED BY <2>4, Zenon DEF ReadingInv, ReadingIn
<1>3. ASSUME NEW micro \in Ambients \cup {None}, ReportAmbient(micro)
      PROVE  ReadingInv'
  <2>1. memory \in Memories
    BY DEF DataInv, Same
  <2>2. /\ source'[1] = micro
        /\ source'[2] = source[2] /\ source'[3] = source[3]
    BY <1>3, SourceOfAmbient
  <2>3. True(1, ReadingIn(memory', 1), source'[1])
    <3>1. CASE micro = None
      <4>1. memory' = SetNull(memory, 1) /\ source'[1] = None
        BY <1>3, <2>2, <3>1, Zenon DEF ReportAmbient, kAmbientEndpoint
      <4>2. 1 \in 1..3
        OBVIOUS
      <4> QED BY <2>1, <4>1, <4>2, SetNullIs, TrueOfNothing, Zenon
    <3>2. CASE micro # None
      <4>1. memory' = Set(memory, kAmbientEndpoint, AmbientCenti(micro))
        BY <1>3, <3>2, Zenon DEF ReportAmbient
      <4>2. micro \in Ambients /\ Measurable(micro)
        BY <3>2, Zenon
      <4> QED BY <2>1, <2>2, <4>1, <4>2, AmbientPublished, Zenon
    <3> QED BY <3>1, <3>2
  <2>4. ASSUME NEW e \in {2, 3}
        PROVE  ReadingIn(memory', e) = ReadingIn(memory, e)
    <3>1. {1} \in SUBSET (1..3) /\ e \in 1..3 /\ e \notin {1}
      OBVIOUS
    <3> QED BY <1>3, <3>1, AmbientWrites, ReadingKept, Zenon
  <2>5. ASSUME NEW e \in 1..3
        PROVE  True(e, ReadingIn(memory', e), source'[e])
    <3>1. CASE e = 1
      BY <2>3, <3>1, Zenon
    <3>2. CASE e \in {2, 3}
      <4>1. source'[e] = source[e]
        BY <2>2, <3>2
      <4> QED BY <2>4, <3>2, <4>1, Zenon DEF ReadingInv
    <3>3. e = 1 \/ e \in {2, 3}
      OBVIOUS
    <3> QED BY <3>1, <3>2, <3>3
  <2> QED BY <2>5, Zenon DEF ReadingInv, ReadingIn
<1>4. CASE \E mfg \in TiltData \cup OtherData : Advert(mfg)
  BY <1>1, <1>4, Zenon DEF Advert
<1>5. CASE Clients
  <2>1. source' = source
    BY <1>5, Zenon DEF Clients, ClientWrite, appVars
  <2> QED BY <1>1, <1>5, <2>1, ClientsKeep, Zenon
<1>6. CASE Reboot
  <2>1. memory' = Defaults /\ source' = [e \in Measured |-> Never]
    BY <1>6, Zenon DEF Reboot
  <2>2. ASSUME NEW e \in 1..3
        PROVE  True(e, ReadingIn(memory', e), source'[e])
    <3>1. ReadingIn(memory', e) = 0
      BY <2>1, DefaultReads, Zenon
    <3>2. source'[e] = Never
      BY <2>1 DEF Measured
    <3> QED BY <3>1, <3>2, TrueOfNothing, Zenon
  <2> QED BY <2>2, Zenon DEF ReadingInv, ReadingIn
<1>7. CASE Serve
  BY <1>1, <1>7, Zenon DEF Serve, InitializePlugins, InitializeCluster, StartDone, Stop, ShutDownCluster,
                           StopDone, appVars
<1>8. CASE UNCHANGED vars
  BY <1>1, <1>8, Zenon DEF vars
<1> QED BY <1>2, <1>3, <1>4, <1>5, <1>6, <1>7, <1>8, Zenon DEF Next

-----------------------------------------------------------------------------
(* Commands and privileges *)

LEMMA CommandServers ==
  ASSUME NEW c \in CommandsInvoked
  PROVE  c \in CodeDriven /\ \E e \in Endpoints : <<e, c>> \in Served
<1>1. c \in CodeDriven
  BY DEF CommandsInvoked, Administrative, CodeDriven
<1>2. CASE c = "Identify"
  <2>1. 1 \in Endpoints /\ 1 \in DOMAIN ClustersOf(1) /\ ClustersOf(1)[1].id = c
    BY <1>2, EndpointsAre, SensorRows, SensorNames
  <2> QED BY <1>1, <2>1, ServedIs, Zenon
<1>3. CASE c # "Identify"
  <2>1. PICK k \in 1..11 : ClustersOf(0)[k].id = c
    <3>1. c \in {"GeneralCommissioning", "GeneralDiagnostics", "AdministratorCommissioning",
                 "OperationalCredentials", "GroupKeyManagement"}
      BY <1>3 DEF CommandsInvoked, Administrative
    <3>2. /\ ClustersOf(0)[6].id = "GeneralCommissioning" /\ ClustersOf(0)[8].id = "GeneralDiagnostics"
          /\ ClustersOf(0)[9].id = "AdministratorCommissioning"
          /\ ClustersOf(0)[10].id = "OperationalCredentials" /\ ClustersOf(0)[11].id = "GroupKeyManagement"
      BY RootNames
    <3> QED BY <3>1, <3>2
  <2>2. 0 \in Endpoints /\ k \in DOMAIN ClustersOf(0)
    BY EndpointsAre, RootRows
  <2> QED BY <1>1, <2>1, <2>2, ServedIs, Zenon
<1> QED BY <1>2, <1>3

LEMMA InvokeNeedsSome ==
  ASSUME NEW c, NEW i
  PROVE  InvokeRequires(c, i) \in AllPrivileges
<1>1. CASE \A j \in DOMAIN INVOKE_CLUSTER : ~(INVOKE_CLUSTER[j] = c /\ INVOKE_COMMAND[j] = i)
  <2>1. InvokeRequires(c, i) = "operate"
    BY <1>1, RequiredOtherwise DEF InvokeRequires
  <2> QED BY <2>1 DEF AllPrivileges
<1>2. ASSUME NEW j \in DOMAIN INVOKE_CLUSTER, INVOKE_CLUSTER[j] = c, INVOKE_COMMAND[j] = i
      PROVE  InvokeRequires(c, i) \in AllPrivileges
  <2>1. InvokeRequires(c, i) = INVOKE_PRIVILEGE[j]
    BY <1>2, InvokeRows, InvokeRequiresIs
  <2> QED BY <2>1, InvokeRows DEF AllPrivileges
<1> QED BY <1>1, <1>2

\* What is handled, for an administrator and for whoever has just the privilege
LEMMA Handled ==
  ASSUME NEW e, NEW c, NEW i, NEW p
  PROVE  Answer(e, c, i, p) = "Handled" <=>
           /\ Grants(p, CommandRequires(c, i)) /\ <<e, c>> \in instances \cup OwnInstances
           /\ i \in Handles(c)
<1>1. "Handled" \notin {"UnsupportedAccess", "UnsupportedCluster", "UnsupportedCommand"}
  OBVIOUS
<1> QED BY <1>1, Zenon DEF Answer, DispatchSingleClusterCommand

\* Of a cluster that is not the SDK's own
LEMMA HandledByTable ==
  ASSUME NEW e, NEW c, NEW i, NEW p, c # "NetworkCommissioning"
  PROVE  Answer(e, c, i, p) = "Handled" <=>
           /\ Grants(p, InvokeRequires(c, i)) /\ <<e, c>> \in instances
           /\ i \in EnabledCommands(c)
<1>1. <<e, c>> \notin OwnInstances
  BY DEF OwnInstances
<1>2. CommandRequires(c, i) = InvokeRequires(c, i) /\ Handles(c) = EnabledCommands(c)
  BY DEF CommandRequires, Handles
<1> QED BY <1>1, <1>2, Handled, Zenon

\* Of the one that is
LEMMA HandledByOwn ==
  ASSUME phase = "up", NEW i \in ThreadCommands
  PROVE  Answer(0, "NetworkCommissioning", i, "administer") = "Handled"
<1>1. <<0, "NetworkCommissioning">> \in instances \cup OwnInstances
  BY DEF OwnInstances
<1>2. /\ CommandRequires("NetworkCommissioning", i) = "administer"
      /\ i \in Handles("NetworkCommissioning")
  BY DEF CommandRequires, Handles
<1>3. Grants("administer", "administer")
  BY GrantsFacts, Zenon DEF AllPrivileges
<1> QED BY <1>1, <1>2, <1>3, Handled, Zenon

LEMMA UpStarted ==
  ASSUME ServerInv, phase = "up", NEW e \in Endpoints, NEW k \in DOMAIN ClustersOf(e)
  PROVE  LET c == ClustersOf(e)[k].id
         IN  /\ c \in plugins /\ <<e, c>> \in inited
             /\ c \in CodeDriven <=> <<e, c>> \in instances
<1> DEFINE c == ClustersOf(e)[k].id
           s == <<e, c>>
<1>1. s \in Served /\ s[2] = c
  BY ServedIs
<1>2. plugins = AllPlugins
  BY DEF ServerInv, PhaseInv
<1>3. c \in plugins
  BY <1>2, NamesKnown
<1>4. s \in inited /\ (c \in CodeDriven => s \in instances)
  BY <1>1 DEF ServerInv, Started
<1>5. s \in instances => c \in CodeDriven
  BY <1>1 DEF ServerInv
<1> QED BY <1>3, <1>4, <1>5, Zenon

LEMMA ReadyFromInv == ServerInv => ServersReady
<1> SUFFICES ASSUME ServerInv, phase = "up", NEW e \in Endpoints, NEW k \in DOMAIN ClustersOf(e)
             PROVE  LET c == ClustersOf(e)[k]
                    IN  /\ c.id \in plugins /\ <<e, c.id>> \in inited
                        /\ (c.accepted # NoList \/ c.id = "Descriptor") => <<e, c.id>> \in instances
  BY Zenon DEF ServersReady
<1> DEFINE c == ClustersOf(e)[k]
<1>1. c.accepted # NoList \/ c.id = "Descriptor" => c.id \in CodeDriven
  BY CommandRows DEF CommandsMatch, CodeDriven
<1> QED BY <1>1, UpStarted, Zenon

\* The endpoints of the sensors have no NetworkCommissioning.
LEMMA OnRootOnly ==
  ASSUME NEW e \in Endpoints, NEW k \in DOMAIN ClustersOf(e),
         ClustersOf(e)[k].id = "NetworkCommissioning"
  PROVE  e = 0
<1> SUFFICES ASSUME e # 0 PROVE FALSE
  OBVIOUS
<1>1. e \in 1..3 /\ k \in 1..3
  BY EndpointsAre, SensorRows
<1> QED BY <1>1, SensorNames DEF MeasurementCluster

LEMMA CommandsFromInv == ServerInv => CommandsServed
<1> SUFFICES ASSUME ServerInv, phase = "up", NEW e \in Endpoints, NEW k \in DOMAIN ClustersOf(e)
             PROVE  LET c == ClustersOf(e)[k]
                        handled == { i \in 0..64 : Answer(e, c.id, i, "administer") = "Handled" }
                    IN  /\ IF <<e, c.id>> \in OwnInstances
                           THEN c.accepted = NoList /\ handled = ThreadCommands
                           ELSE handled = CommandsFrom(c.accepted)
                        /\ CommandsFrom(c.accepted) \cap CommandsFrom(c.generated) = {}
  BY Zenon DEF CommandsServed
<1> DEFINE c == ClustersOf(e)[k]
           handled == { i \in 0..64 : Answer(e, c.id, i, "administer") = "Handled" }
<1>1. CommandsMatch(c)
  BY CommandRows
<1>2. c.id \in CodeDriven <=> <<e, c.id>> \in instances
  BY UpStarted
<1>3. CASE <<e, c.id>> \in OwnInstances
  <2>1. e = 0 /\ c.id = "NetworkCommissioning"
    BY <1>3 DEF OwnInstances
  <2>2. c.accepted = NoList
    BY <1>1, <2>1 DEF CommandsMatch, CodeDriven
  <2>3. ASSUME NEW i
        PROVE  Answer(e, c.id, i, "administer") = "Handled" <=> i \in ThreadCommands
    <3>1. Answer(e, c.id, i, "administer") = "Handled" => i \in Handles(c.id)
      BY Handled, Zenon
    <3>2. Handles(c.id) = ThreadCommands
      BY <2>1 DEF Handles
    <3> QED BY <2>1, <3>1, <3>2, HandledByOwn, Zenon
  <2>4. \A i \in ThreadCommands : i \in 0..64
    BY DEF ThreadCommands
  <2>5. handled = ThreadCommands
    BY <2>3, <2>4, Zenon
  <2> QED BY <1>1, <1>3, <2>2, <2>5, Zenon DEF CommandsMatch
<1>4. CASE <<e, c.id>> \notin OwnInstances
  <2>1. c.id # "NetworkCommissioning"
    <3> SUFFICES ASSUME c.id = "NetworkCommissioning" PROVE e = 0
      BY <1>4 DEF OwnInstances
    <3> QED BY OnRootOnly
  <2> HIDE DEF c
  <2>2. ASSUME NEW i
        PROVE  Answer(e, c.id, i, "administer") = "Handled" <=>
                 <<e, c.id>> \in instances /\ i \in EnabledCommands(c.id)
    BY <2>1, HandledByTable, InvokeNeedsSome, GrantsFacts, Zenon
  <2>3. ASSUME NEW i
        PROVE  i \in CommandsFrom(c.accepted) <=>
                 i \in 0..64 /\ Answer(e, c.id, i, "administer") = "Handled"
    <3>1. CASE c.accepted = NoList
      BY <1>1, <2>2, <3>1, Zenon DEF CommandsMatch
    <3>2. CASE c.accepted # NoList
      BY <1>1, <1>2, <2>2, <3>2, Zenon DEF CommandsMatch
    <3> QED BY <3>1, <3>2
  <2>4. handled = CommandsFrom(c.accepted)
    BY <2>3, Zenon
  <2> QED BY <1>1, <1>4, <2>4, Zenon DEF CommandsMatch, c
<1> QED BY <1>3, <1>4

LEMMA PrivilegesFromInv == ServerInv => PrivilegesAligned
<1> SUFFICES ASSUME ServerInv, phase = "up"
             PROVE  /\ \A i \in DOMAIN READ_CLUSTER : Has(READ_CLUSTER[i], READ_ATTRIBUTE[i], {})
                    /\ \A i \in DOMAIN WRITE_CLUSTER :
                         /\ Has(WRITE_CLUSTER[i], WRITE_ATTRIBUTE[i], {"writable"})
                         /\ Grants(WRITE_PRIVILEGE[i], ReadRequires(WRITE_CLUSTER[i], WRITE_ATTRIBUTE[i]))
                    /\ \A i \in DOMAIN INVOKE_CLUSTER : \E e \in Endpoints :
                         Answer(e, INVOKE_CLUSTER[i], INVOKE_COMMAND[i], INVOKE_PRIVILEGE[i]) = "Handled"
  BY Zenon DEF PrivilegesAligned, Has
<1>1. \A i \in DOMAIN READ_CLUSTER : Has(READ_CLUSTER[i], READ_ATTRIBUTE[i], {})
  BY ReadRows, Zenon
<1>2. \A i \in DOMAIN WRITE_CLUSTER :
        /\ Has(WRITE_CLUSTER[i], WRITE_ATTRIBUTE[i], {"writable"})
        /\ Grants(WRITE_PRIVILEGE[i], ReadRequires(WRITE_CLUSTER[i], WRITE_ATTRIBUTE[i]))
  BY WriteRows, WritersRead, Zenon
<1>3. ASSUME NEW i \in DOMAIN INVOKE_CLUSTER
      PROVE  \E e \in Endpoints :
               Answer(e, INVOKE_CLUSTER[i], INVOKE_COMMAND[i], INVOKE_PRIVILEGE[i]) = "Handled"
  <2> DEFINE c == INVOKE_CLUSTER[i]
  <2>1. /\ i \in 1..22 /\ c \in CommandsInvoked /\ INVOKE_COMMAND[i] \in EnabledCommands(c)
        /\ INVOKE_PRIVILEGE[i] \in AllPrivileges
    BY InvokeRows DEF AllPrivileges
  <2>2. Grants(INVOKE_PRIVILEGE[i], InvokeRequires(c, INVOKE_COMMAND[i]))
    BY <2>1, InvokeRequiresIs, GrantsFacts, Zenon
  <2>3. PICK e \in Endpoints : <<e, c>> \in Served /\ c \in CodeDriven
    BY <2>1, CommandServers, Zenon
  <2>4. <<e, c>> \in instances
    <3>1. <<e, c>>[2] = c
      OBVIOUS
    <3> QED BY <2>3, <3>1, Zenon DEF ServerInv, Started
  <2>5. c # "NetworkCommissioning"
    BY <2>1 DEF CommandsInvoked, Administrative
  <2> QED BY <2>1, <2>2, <2>3, <2>4, <2>5, HandledByTable, Zenon
<1> QED BY <1>1, <1>2, <1>3, Zenon

-----------------------------------------------------------------------------
(* What the run checks follows *)

\* The server's and the memory's invariants hold, after any number of starts and stops.
THEOREM ServerInvariant == Spec => [](ServerInv /\ DataInv)
<1>1. Init => ServerInv /\ DataInv
  BY ServerInit, DataInit
<1>2. ServerInv /\ DataInv /\ [Next]_vars => (ServerInv /\ DataInv)'
  BY ServerStep, DataStep
<1> QED BY <1>1, <1>2, PTL DEF Spec

\* Every variable of the server has its type, and the SDK's storage its size.
THEOREM ServerTypes == Spec => []TypeOK
<1>1. ServerInv /\ DataInv => TypeOK
  <2> SUFFICES ASSUME ServerInv, DataInv PROVE TypeOK
    OBVIOUS
  <2>1. phase \in {"starting", "up", "stopping", "down"} /\ position \in 0..Len(GENERATED_CLUSTERS)
    BY LengthIs DEF ServerInv, PhaseInv
  <2>2. plugins \subseteq {PluginsInit[i] : i \in DOMAIN PluginsInit}
    BY Zenon DEF ServerInv, PhaseInv, AllPlugins
  <2>3. inited \subseteq Served /\ instances \subseteq Served
    BY DEF ServerInv
  <2>4. memory \in [0..(ATTRIBUTE_MAX_SIZE - 1) -> 0..255]
    BY MaxIs DEF DataInv, Same, Memories
  <2>5. DOMAIN source = Measured /\ source[kAmbientEndpoint] \in Ambients \cup {None, Never}
    BY DEF DataInv, Measured, kAmbientEndpoint
  <2>6. \A e \in Measured \ {kAmbientEndpoint} : source[e] \in TiltData \cup {None, Never}
    BY DEF DataInv, Published, Measured, kAmbientEndpoint
  <2> QED BY <2>1, <2>2, <2>3, <2>4, <2>5, <2>6 DEF TypeOK, DataInv
<1> QED BY <1>1, ServerInvariant, PTL

\* What a client reads of a sensor is what was measured, as long as 16 bits can hold
\* the hundredths of every reading of the ambient sensor (a cast in
\* ambient_read_centi_c, and nothing before it, drops the bits they cannot hold).
THEOREM ReadingsAlwaysTrue ==
  ASSUME \A micro \in Ambients : Measurable(micro)
  PROVE  Spec => []ReadingsTrue
<1>1. Init => ReadingInv
  BY ReadingsBegin DEF Init
<1>2. ServerInv /\ DataInv /\ ReadingInv /\ [Next]_vars => ReadingInv'
  BY ReadingStep
<1>3. ReadingInv => ReadingsTrue
  BY ReadingsTrueIs, Zenon DEF ReadingInv
<1> QED BY <1>1, <1>2, <1>3, ServerInvariant, PTL DEF Spec

\* Neither a report nor a client's write reaches the bytes of another attribute.
THEOREM OthersAlwaysKeepDefaults == Spec => []OthersKeepDefaults
<1>1. DataInv => OthersKeepDefaults
  <2> SUFFICES ASSUME DataInv, NEW s \in StoredAttributes,
                      ~(s.endpoint \in Measured /\ s.cluster = MeasurementCluster(s.endpoint)
                          /\ s.attribute.id = MeasuredValue),
                      NEW o \in s.at..(s.at + s.attribute.size - 1)
               PROVE  memory[o] = Defaults[o]
    BY Zenon DEF OthersKeepDefaults
  <2>1. o \in Places90 /\ \A e \in 1..3 : o \notin Own(e)
    BY OthersElsewhere, Zenon
  <2> QED BY <2>1, Zenon DEF DataInv, Same
<1> QED BY <1>1, ServerInvariant, PTL

\* A server that is up has registered a code-driven server wherever the tables
\* promise commands: none of the pools is too small.
THEOREM ServersAlwaysReady == Spec => []ServersReady
<1> QED BY ReadyFromInv, ServerInvariant, PTL

\* Every command that the tables list is handled and no other is, but for the SDK's
\* own instance, whose commands are handled and not in the tables.
THEOREM CommandsAlwaysServed == Spec => []CommandsServed
<1> QED BY CommandsFromInv, ServerInvariant, PTL

\* The three privilege arrays fit each other, the attributes and the servers.
THEOREM PrivilegesAlwaysAligned == Spec => []PrivilegesAligned
<1> QED BY PrivilegesFromInv, ServerInvariant, PTL

\* A server that has stopped has nothing registered any more.
THEOREM ShutdownAlwaysReleases == Spec => []ShutdownReleases
<1>1. ServerInv => ShutdownReleases
  BY DEF ServerInv, ShutdownReleases
<1> QED BY <1>1, ServerInvariant, PTL
=============================================================================
