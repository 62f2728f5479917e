-------------------------- MODULE DataModelProofs --------------------------
(***************************************************************************)
(* What the generated tables of DataModel say of each other, worked out    *)
(* row by row: every index leads to where it should, and the bytes that    *)
(* the SDK adds up do not overlap.                                         *)
(***************************************************************************)
EXTENDS DataModel, SequenceTheorems, FiniteSetTheorems, WellFoundedInduction, TLAPS

-----------------------------------------------------------------------------
(* Sums *)

AreSums(sum, numbers, n) ==
  sum = [i \in 0..n |-> IF i = 0 THEN 0 ELSE sum[i - 1] + numbers[i]]

\* By induction on how many numbers there are: the least n without sums would be
\* one more than one that has them.
LEMMA SumsExist ==
  ASSUME NEW n \in Nat, NEW numbers
  PROVE  \E sum : AreSums(sum, numbers, n)
<1> SUFFICES ASSUME ~\E sum : AreSums(sum, numbers, n) PROVE FALSE
  OBVIOUS
<1> DEFINE Bad == { m \in Nat : ~\E sum : AreSums(sum, numbers, m) }
<1>1. PICK m \in Bad : \A j \in Bad : ~(<<j, m>> \in OpToRel(<, Nat))
  <2>1. Bad \subseteq Nat /\ n \in Bad
    OBVIOUS
  <2> QED BY <2>1, NatLessThanWellFounded, WFMin, Zenon
<1>2. \A j \in Nat : j < m => j \notin Bad
  BY <1>1, Zenon DEF OpToRel
<1>3. m # 0
  <2>1. AreSums([i \in 0..0 |-> 0], numbers, 0)
    BY DEF AreSums
  <2> QED BY <2>1
<1>4. m - 1 \in Nat /\ m - 1 < m /\ m \in Nat
  BY <1>3
<1>5. PICK sum : AreSums(sum, numbers, m - 1)
  BY <1>2, <1>4
<1> DEFINE more == [i \in 0..m |-> IF i = m THEN sum[m - 1] + numbers[m] ELSE sum[i]]
<1>6. \A i \in 0..(m - 1) : sum[i] = IF i = 0 THEN 0 ELSE sum[i - 1] + numbers[i]
  BY <1>5 DEF AreSums
<1>7. \A i \in 0..m : more[i] = IF i = 0 THEN 0 ELSE more[i - 1] + numbers[i]
  BY <1>4, <1>6
<1> QED BY <1>7 DEF AreSums

\* SumsOf adds up one number after the other, however many there are.
LEMMA SumsAre ==
  ASSUME NEW n \in Nat, NEW numbers
  PROVE  /\ SumsOf(numbers, n)[0] = 0
         /\ \A i \in 1..n : SumsOf(numbers, n)[i] = SumsOf(numbers, n)[i - 1] + numbers[i]
<1>1. SumsOf(numbers, n) = CHOOSE sum : AreSums(sum, numbers, n)
  BY Zenon DEF SumsOf, AreSums
<1>2. AreSums(SumsOf(numbers, n), numbers, n)
  BY <1>1, SumsExist, Zenon
<1> QED BY <1>2 DEF AreSums

\* The sums of natural numbers never get smaller.
LEMMA SumsGrow ==
  ASSUME NEW n \in Nat, NEW numbers, \A i \in 1..n : numbers[i] \in Nat,
         NEW b \in 0..n
  PROVE  /\ SumsOf(numbers, n)[b] \in Nat
         /\ \A a \in 0..b : SumsOf(numbers, n)[a] <= SumsOf(numbers, n)[b]
<1> DEFINE sums == SumsOf(numbers, n)
           Grown(m) == sums[m] \in Nat /\ \A a \in 0..m : sums[a] <= sums[m]
           Bad == { m \in Nat : m <= n /\ ~Grown(m) }
<1>1. sums[0] = 0 /\ \A i \in 1..n : sums[i] = sums[i - 1] + numbers[i]
  BY SumsAre
<1> HIDE DEF sums
<1> SUFFICES ASSUME ~Grown(b) PROVE FALSE
  BY DEF sums
<1>2. PICK m \in Bad : \A j \in Bad : ~(<<j, m>> \in OpToRel(<, Nat))
  <2>1. Bad \subseteq Nat /\ b \in Bad
    OBVIOUS
  <2> QED BY <2>1, NatLessThanWellFounded, WFMin, Zenon
<1>3. m \in 0..n /\ ~Grown(m)
  OBVIOUS
<1>4. \A j \in Nat : j < m => j \notin Bad
  BY <1>2, Zenon DEF OpToRel
<1>5. m # 0
  BY <1>1, <1>3
<1>6. m - 1 \in Nat /\ m - 1 \in 0..n /\ m - 1 < m /\ m \in 1..n
  BY <1>3, <1>5
<1>7. Grown(m - 1)
  BY <1>4, <1>6
<1>8. sums[m] \in Nat /\ sums[m - 1] <= sums[m]
  BY <1>1, <1>6, <1>7
<1>9. ASSUME NEW a \in 0..m PROVE sums[a] <= sums[m]
  <2>1. CASE a = m
    BY <1>8, <2>1
  <2>2. CASE a \in 0..(m - 1)
    <3>1. sums[a] <= sums[m - 1] /\ sums[m - 1] \in Nat
      BY <1>7, <2>2
    <3>2. sums[a] \in Int
      <4>1. a \in 0..n /\ a \in Nat /\ a < m
        BY <1>6, <2>2
      <4> QED BY <1>4, <4>1
    <3> QED BY <1>8, <3>1, <3>2
  <2> QED BY <1>6, <2>1, <2>2
<1> QED BY <1>3, <1>8, <1>9

-----------------------------------------------------------------------------
(* Endpoints and clusters *)

LEMMA EndpointsAre == Endpoints = 0..3
BY DEF Endpoints, FIXED_ENDPOINT_COUNT

LEMMA EndpointTypesAre ==
  /\ EndpointType(0) = [clusters |-> 0, count |-> 11, size |-> 54]
  /\ \A e \in 1..3 : EndpointType(e) = [clusters |-> 8 + 3 * e, count |-> 3, size |-> 12]
BY DEF EndpointType

LEMMA RootRows ==
  /\ DOMAIN ClustersOf(0) = 1..11
  /\ \A k \in 1..11 : ClustersOf(0)[k] = RootClusters[k]
<1>1. \A k \in 1..11 : GENERATED_CLUSTERS[k] = RootClusters[k]
  BY DEF GENERATED_CLUSTERS, RootClusters, SensorClusters
<1>2. EndpointType(0).count = 11 /\ EndpointType(0).clusters = 0
  BY EndpointTypesAre
<1>3. ClustersOf(0) = [k \in 1..11 |-> GENERATED_CLUSTERS[k]]
  BY <1>2 DEF ClustersOf
<1> QED BY <1>1, <1>3

LEMMA SensorRows ==
  ASSUME NEW e \in 1..3
  PROVE  /\ DOMAIN ClustersOf(e) = 1..3
         /\ \A k \in 1..3 : ClustersOf(e)[k] = SensorClusters[3 * (e - 1) + k]
<1>1. \A k \in 1..9 : GENERATED_CLUSTERS[11 + k] = SensorClusters[k]
  BY DEF GENERATED_CLUSTERS, RootClusters, SensorClusters
<1>2. EndpointType(e).count = 3 /\ EndpointType(e).clusters = 8 + 3 * e
  BY EndpointTypesAre
<1>3. ClustersOf(e) = [k \in 1..3 |-> GENERATED_CLUSTERS[8 + 3 * e + k]]
  BY <1>2 DEF ClustersOf
<1>4. \A k \in 1..3 : 3 * (e - 1) + k \in 1..9 /\ 8 + 3 * e + k = 11 + (3 * (e - 1) + k)
  OBVIOUS
<1> QED BY <1>1, <1>3, <1>4

\* The bytes before each endpoint
BytesBefore == SumsOf([d \in 1..FIXED_ENDPOINT_COUNT |-> EndpointType(d - 1).size], FIXED_ENDPOINT_COUNT)

LEMMA EndpointSums == BytesBefore[0] = 0 /\ \A e \in 1..4 : BytesBefore[e] = 42 + 12 * e
<1> DEFINE sizes == [d \in 1..4 |-> EndpointType(d - 1).size]
           sums == SumsOf(sizes, 4)
<1>1. sizes[1] = 54 /\ \A d \in 2..4 : sizes[d] = 12
  BY EndpointTypesAre
<1> HIDE DEF sizes
<1>2. sums[0] = 0 /\ \A i \in 1..4 : sums[i] = sums[i - 1] + sizes[i]
  BY SumsAre
<1> HIDE DEF sums
<1>3. sums[1] = 54 /\ sums[2] = 66 /\ sums[3] = 78 /\ sums[4] = 90
  <2>1. sums[1] = 54
    BY <1>1, <1>2
  <2>2. sums[2] = 66
    BY <1>1, <1>2, <2>1
  <2>3. sums[3] = 78
    BY <1>1, <1>2, <2>2
  <2> QED BY <1>1, <1>2, <2>1, <2>2, <2>3
<1>4. \A e \in 1..4 : sums[e] = 42 + 12 * e
  BY <1>3
<1> QED BY <1>2, <1>4 DEF sums, sizes, BytesBefore, FIXED_ENDPOINT_COUNT

\* The clusters before each endpoint
ClustersBefore == SumsOf([d \in 1..FIXED_ENDPOINT_COUNT |-> EndpointType(d - 1).count], FIXED_ENDPOINT_COUNT)

LEMMA CountSums == ClustersBefore[0] = 0 /\ \A e \in 1..4 : ClustersBefore[e] = 8 + 3 * e
<1> DEFINE counts == [d \in 1..4 |-> EndpointType(d - 1).count]
           sums == SumsOf(counts, 4)
<1>1. counts[1] = 11 /\ \A d \in 2..4 : counts[d] = 3
  BY EndpointTypesAre
<1> HIDE DEF counts
<1>2. sums[0] = 0 /\ \A i \in 1..4 : sums[i] = sums[i - 1] + counts[i]
  BY SumsAre
<1> HIDE DEF sums
<1>3. sums[1] = 11 /\ sums[2] = 14 /\ sums[3] = 17 /\ sums[4] = 20
  <2>1. sums[1] = 11
    BY <1>1, <1>2
  <2>2. sums[2] = 14
    BY <1>1, <1>2, <2>1
  <2>3. sums[3] = 17
    BY <1>1, <1>2, <2>2
  <2> QED BY <1>1, <1>2, <2>1, <2>2, <2>3
<1>4. \A e \in 1..4 : sums[e] = 8 + 3 * e
  BY <1>3
<1> QED BY <1>2, <1>4 DEF sums, counts, ClustersBefore, FIXED_ENDPOINT_COUNT

\* The bytes before each cluster of its endpoint
ClusterSums(e) == SumsOf([i \in DOMAIN ClustersOf(e) |-> ClustersOf(e)[i].size], EndpointType(e).count)

LEMMA RootSums ==
  LET sums == ClusterSums(0)
  IN  /\ sums[0] = 0 /\ sums[1] = 0 /\ sums[2] = 0 /\ sums[3] = 0 /\ sums[4] = 9
      /\ sums[5] = 49 /\ sums[6] = 49 /\ sums[7] = 49 /\ sums[8] = 50
      /\ sums[9] = 54 /\ sums[10] = 54
<1> DEFINE sizes == [i \in DOMAIN ClustersOf(0) |-> ClustersOf(0)[i].size]
           sums == SumsOf(sizes, 11)
<1>1. \A i \in 1..11 : sizes[i] = RootClusters[i].size
  BY RootRows
<1>2. \A i \in 1..11 : sizes[i] = <<0, 0, 0, 9, 40, 0, 0, 1, 4, 0, 0>>[i]
  BY <1>1 DEF RootClusters, Cluster
<1> HIDE DEF sizes
<1>3. sums[0] = 0 /\ \A i \in 1..11 : sums[i] = sums[i - 1] + sizes[i]
  BY SumsAre
<1> HIDE DEF sums
<1>4. sums[0] = 0 /\ sums[1] = 0 /\ sums[2] = 0 /\ sums[3] = 0 /\ sums[4] = 9
  BY <1>2, <1>3
<1>5. sums[5] = 49 /\ sums[6] = 49 /\ sums[7] = 49 /\ sums[8] = 50
  BY <1>2, <1>3, <1>4
<1>6. sums[9] = 54 /\ sums[10] = 54
  BY <1>2, <1>3, <1>5
<1> QED BY <1>4, <1>5, <1>6, EndpointTypesAre DEF sums, sizes, ClusterSums

LEMMA SensorSums ==
  ASSUME NEW e \in 1..3
  PROVE  ClusterSums(e)[0] = 0 /\ ClusterSums(e)[1] = 0 /\ ClusterSums(e)[2] = 0
<1> DEFINE sizes == [i \in DOMAIN ClustersOf(e) |-> ClustersOf(e)[i].size]
           sums == SumsOf(sizes, 3)
<1>1. \A i \in 1..3 : sizes[i] = SensorClusters[3 * (e - 1) + i].size
  BY SensorRows
<1>2. sizes[1] = 0 /\ sizes[2] = 0
  <2>1. \A i \in {1, 2, 4, 5, 7, 8} : SensorClusters[i].size = 0
    BY DEF SensorClusters, Cluster
  <2> QED BY <1>1, <2>1
<1> HIDE DEF sizes
<1>3. sums[0] = 0 /\ \A i \in 1..3 : sums[i] = sums[i - 1] + sizes[i]
  BY SumsAre
<1>4. sums[1] = 0 /\ sums[2] = 0
  BY <1>2, <1>3
<1> QED BY <1>3, <1>4, EndpointTypesAre DEF sizes, ClusterSums

-----------------------------------------------------------------------------
(* Attributes *)

\* Where the attributes that the SDK keeps bytes for are among all of them
LEMMA AttributeRows ==
  /\ \A j \in 1..6 : GENERATED_ATTRIBUTES[30 + j] = OtaAttributes[j]
  /\ \A j \in 1..4 : GENERATED_ATTRIBUTES[36 + j] = LocalizationAttributes[j]
  /\ \A j \in 1..6 : GENERATED_ATTRIBUTES[55 + j] = GeneralDiagnosticsAttributes[j]
  /\ \A j \in 1..5 : GENERATED_ATTRIBUTES[61 + j] = AdministratorCommissioningAttributes[j]
  /\ \A j \in 1..5 : GENERATED_ATTRIBUTES[90 + j] = MeasurementAttributes(4)[j]
  /\ \A j \in 1..5 : GENERATED_ATTRIBUTES[105 + j] = MeasurementAttributes(4)[j]
  /\ \A j \in 1..5 : GENERATED_ATTRIBUTES[120 + j] = MeasurementAttributes(3)[j]
<1> USE DEF GENERATED_ATTRIBUTES, Globals, DescriptorAttributes, AccessControlAttributes,
            BasicInformationAttributes, OtaAttributes, LocalizationAttributes,
            GeneralCommissioningAttributes, NetworkCommissioningAttributes,
            GeneralDiagnosticsAttributes, AdministratorCommissioningAttributes,
            OperationalCredentialsAttributes, GroupKeyManagementAttributes,
            Endpoint1Attributes, Endpoint2Attributes, Endpoint3Attributes,
            IdentifyAttributes, MeasurementAttributes
<1>1. \A j \in 1..6 : GENERATED_ATTRIBUTES[30 + j] = OtaAttributes[j]
  OBVIOUS
<1>2. \A j \in 1..4 : GENERATED_ATTRIBUTES[36 + j] = LocalizationAttributes[j]
  OBVIOUS
<1>3. \A j \in 1..6 : GENERATED_ATTRIBUTES[55 + j] = GeneralDiagnosticsAttributes[j]
  OBVIOUS
<1>4. \A j \in 1..5 : GENERATED_ATTRIBUTES[61 + j] = AdministratorCommissioningAttributes[j]
  OBVIOUS
<1>5. \A j \in 1..5 : GENERATED_ATTRIBUTES[90 + j] = MeasurementAttributes(4)[j]
  OBVIOUS
<1>6. \A j \in 1..5 : GENERATED_ATTRIBUTES[105 + j] = MeasurementAttributes(4)[j]
  OBVIOUS
<1>7. \A j \in 1..5 : GENERATED_ATTRIBUTES[120 + j] = MeasurementAttributes(3)[j]
  OBVIOUS
<1> HIDE DEF GENERATED_ATTRIBUTES, Globals, DescriptorAttributes, AccessControlAttributes,
            BasicInformationAttributes, OtaAttributes, LocalizationAttributes,
            GeneralCommissioningAttributes, NetworkCommissioningAttributes,
            GeneralDiagnosticsAttributes, AdministratorCommissioningAttributes,
            OperationalCredentialsAttributes, GroupKeyManagementAttributes,
            Endpoint1Attributes, Endpoint2Attributes, Endpoint3Attributes,
            IdentifyAttributes, MeasurementAttributes
<1> QED BY <1>1, <1>2, <1>3, <1>4, <1>5, <1>6, <1>7

\* Everything else is kept outside of the SDK's storage.
ExternalIndices == (1..30) \cup (41..55) \cup (67..90) \cup (96..105) \cup (111..120)

LEMMA ExternalRows ==
  ASSUME NEW i \in ExternalIndices
  PROVE  "external" \in GENERATED_ATTRIBUTES[i].mask
<1> USE DEF GENERATED_ATTRIBUTES, Globals, DescriptorAttributes, AccessControlAttributes,
            BasicInformationAttributes, OtaAttributes, LocalizationAttributes,
            GeneralCommissioningAttributes, NetworkCommissioningAttributes,
            GeneralDiagnosticsAttributes, AdministratorCommissioningAttributes,
            OperationalCredentialsAttributes, GroupKeyManagementAttributes,
            Endpoint1Attributes, Endpoint2Attributes, Endpoint3Attributes,
            IdentifyAttributes, MeasurementAttributes, Attribute, List
<1> DEFINE Outside == {External, Writable, ExternalNullable}
           mask(k) == GENERATED_ATTRIBUTES[k].mask
<1>1. \A k \in 1..30 : mask(k) \in Outside
  OBVIOUS
<1>2. \A k \in 41..55 : mask(k) \in Outside
  OBVIOUS
<1>3. \A k \in 67..90 : mask(k) \in Outside
  OBVIOUS
<1>4. \A k \in 96..105 : mask(k) \in Outside
  OBVIOUS
<1>5. \A k \in 111..120 : mask(k) \in Outside
  OBVIOUS
<1> HIDE DEF Outside, mask
<1>6. mask(i) \in Outside
  <2>1. CASE i \in 1..30
    BY <1>1, <2>1
  <2>2. CASE i \in 41..55
    BY <1>2, <2>2
  <2>3. CASE i \in 67..90
    BY <1>3, <2>3
  <2>4. CASE i \in 96..105
    BY <1>4, <2>4
  <2>5. CASE i \in 111..120
    BY <1>5, <2>5
  <2> QED BY <2>1, <2>2, <2>3, <2>4, <2>5 DEF ExternalIndices
<1>7. \A m \in Outside : "external" \in m
  BY DEF Outside, External, Writable, ExternalNullable
<1> HIDE DEF GENERATED_ATTRIBUTES
<1> QED BY <1>6, <1>7 DEF mask

-----------------------------------------------------------------------------
(* Bytes of the attributes *)

AttributeSums(c) == SumsOf([i \in 1..c.count |-> Stored(AttributesOf(c)[i])], c.count)

\* The attributes of a cluster that are stored fit into so many bytes.
Fits(c, room) ==
  \A j \in DOMAIN AttributesOf(c) :
    LET a == AttributesOf(c)[j]
    IN  /\ Stored(a) \in Nat
        /\ Stored(a) > 0 => /\ a.size \in Nat /\ a.value \in Nat /\ Stored(a) = a.size
                            /\ AttributeSums(c)[j - 1] \in Nat
                            /\ AttributeSums(c)[j - 1] + a.size <= room

LEMMA SumsOfBytes ==
  ASSUME NEW c, c.count \in Nat
  PROVE  /\ AttributeSums(c)[0] = 0
         /\ \A j \in 1..c.count :
              AttributeSums(c)[j] = AttributeSums(c)[j - 1] + Stored(AttributesOf(c)[j])
<1> DEFINE bytes == [i \in 1..c.count |-> Stored(AttributesOf(c)[i])]
<1>1. \A j \in 1..c.count : bytes[j] = Stored(AttributesOf(c)[j])
  OBVIOUS
<1> HIDE DEF bytes
<1>2. /\ SumsOf(bytes, c.count)[0] = 0
      /\ \A j \in 1..c.count : SumsOf(bytes, c.count)[j] = SumsOf(bytes, c.count)[j - 1] + bytes[j]
  BY SumsAre
<1> QED BY <1>1, <1>2 DEF AttributeSums, bytes

LEMMA OtaFits ==
  /\ Fits(RootClusters[4], 9)
  /\ \A j \in DOMAIN AttributesOf(RootClusters[4]) :
       LET mask == AttributesOf(RootClusters[4])[j].mask
       IN  "writable" \in mask => "external" \in mask
<1> DEFINE c == RootClusters[4]
           sums == AttributeSums(c)
           a(j) == AttributesOf(c)[j]
<1>1. c.attributes = 30 /\ c.count = 6
  BY DEF RootClusters, Cluster
<1>2. DOMAIN AttributesOf(c) = 1..6 /\ \A j \in 1..6 : a(j) = OtaAttributes[j]
  <2>1. AttributesOf(c) = [j \in 1..6 |-> GENERATED_ATTRIBUTES[30 + j]]
    BY <1>1, Zenon DEF AttributesOf
  <2>2. \A j \in 1..6 : GENERATED_ATTRIBUTES[30 + j] = OtaAttributes[j]
    BY AttributeRows, Zenon
  <2> HIDE DEF c
  <2> QED BY <2>1, <2>2
<1>3. \A j \in 1..6 : a(j).size = <<0, 1, 1, 1, 4, 2>>[j] /\ a(j).value \in Nat
  BY <1>2 DEF OtaAttributes, Attribute, Constant, List, Globals
<1>4. /\ \A j \in {1} : "external" \in a(j).mask
      /\ \A j \in {2, 3, 4, 5, 6} : "external" \notin a(j).mask
  BY <1>2 DEF OtaAttributes, Attribute, Constant, List, Globals, Writable, Internal, Nullable,
              External, ExternalNullable
<1>5. \A j \in 2..6 : "writable" \notin a(j).mask
  BY <1>2 DEF OtaAttributes, Attribute, Constant, Internal, Nullable
<1>6. \A j \in 1..6 : "writable" \in a(j).mask => "external" \in a(j).mask
  BY <1>4, <1>5
<1> HIDE DEF c
<1>7. /\ \A j \in {1} : Stored(a(j)) = 0
      /\ \A j \in {2, 3, 4, 5, 6} : Stored(a(j)) = a(j).size
  BY <1>4 DEF Stored
<1> HIDE DEF a
<1>8. sums[0] = 0 /\ \A j \in 1..6 : sums[j] = sums[j - 1] + Stored(a(j))
  BY <1>1, SumsOfBytes DEF a
<1> HIDE DEF sums
<1>9. sums[1] = 0 /\ sums[2] = 1 /\ sums[3] = 2 /\ sums[4] = 3 /\ sums[5] = 7
  BY <1>3, <1>7, <1>8
<1>10. \A j \in 1..6 : Stored(a(j)) \in Nat /\ (Stored(a(j)) > 0 =>
        /\ a(j).size \in Nat /\ a(j).value \in Nat /\ Stored(a(j)) = a(j).size
        /\ sums[j - 1] \in Nat /\ sums[j - 1] + a(j).size <= 9)
  BY <1>3, <1>7, <1>8, <1>9
<1> QED BY <1>2, <1>10, <1>6 DEF Fits, c, sums, a

LEMMA LocalizationFits == Fits(RootClusters[5], 40)
<1> DEFINE c == RootClusters[5]
           sums == AttributeSums(c)
           a(j) == AttributesOf(c)[j]
<1>1. c.attributes = 36 /\ c.count = 4
  BY DEF RootClusters, Cluster
<1>2. DOMAIN AttributesOf(c) = 1..4 /\ \A j \in 1..4 : a(j) = LocalizationAttributes[j]
  <2>1. AttributesOf(c) = [j \in 1..4 |-> GENERATED_ATTRIBUTES[36 + j]]
    BY <1>1, Zenon DEF AttributesOf
  <2>2. \A j \in 1..4 : GENERATED_ATTRIBUTES[36 + j] = LocalizationAttributes[j]
    BY AttributeRows, Zenon
  <2> HIDE DEF c
  <2> QED BY <2>1, <2>2
<1>3. \A j \in 1..4 : a(j).size = <<36, 0, 4, 2>>[j] /\ a(j).value \in Nat
  BY <1>2 DEF LocalizationAttributes, Attribute, Constant, List, Globals
<1>4. /\ \A j \in {2, 4} : "external" \in a(j).mask
      /\ \A j \in {1, 3} : "external" \notin a(j).mask
  BY <1>2 DEF LocalizationAttributes, Attribute, Constant, List, Globals, Writable, Internal, Nullable,
              External, ExternalNullable
<1> HIDE DEF c
<1>5. /\ \A j \in {2, 4} : Stored(a(j)) = 0
      /\ \A j \in {1, 3} : Stored(a(j)) = a(j).size
  BY <1>4 DEF Stored
<1> HIDE DEF a
<1>6. sums[0] = 0 /\ \A j \in 1..4 : sums[j] = sums[j - 1] + Stored(a(j))
  BY <1>1, SumsOfBytes DEF a
<1> HIDE DEF sums
<1>7. sums[1] = 36 /\ sums[2] = 36 /\ sums[3] = 40
  BY <1>3, <1>5, <1>6
<1>8. \A j \in 1..4 : Stored(a(j)) \in Nat /\ (Stored(a(j)) > 0 =>
        /\ a(j).size \in Nat /\ a(j).value \in Nat /\ Stored(a(j)) = a(j).size
        /\ sums[j - 1] \in Nat /\ sums[j - 1] + a(j).size <= 40)
  BY <1>3, <1>5, <1>6, <1>7
<1> QED BY <1>2, <1>8 DEF Fits, c, sums, a

LEMMA DiagnosticsFits == Fits(RootClusters[8], 1)
<1> DEFINE c == RootClusters[8]
           sums == AttributeSums(c)
           a(j) == AttributesOf(c)[j]
<1>1. c.attributes = 55 /\ c.count = 6
  BY DEF RootClusters, Cluster
<1>2. DOMAIN AttributesOf(c) = 1..6 /\ \A j \in 1..6 : a(j) = GeneralDiagnosticsAttributes[j]
  <2>1. AttributesOf(c) = [j \in 1..6 |-> GENERATED_ATTRIBUTES[55 + j]]
    BY <1>1, Zenon DEF AttributesOf
  <2>2. \A j \in 1..6 : GENERATED_ATTRIBUTES[55 + j] = GeneralDiagnosticsAttributes[j]
    BY AttributeRows, Zenon
  <2> HIDE DEF c
  <2> QED BY <2>1, <2>2
<1>3. \A j \in 1..6 : a(j).size = <<0, 2, 8, 1, 4, 2>>[j] /\ a(j).value \in Nat
  BY <1>2 DEF GeneralDiagnosticsAttributes, Attribute, Constant, List, Globals
<1>4. /\ \A j \in {1, 2, 3, 5, 6} : "external" \in a(j).mask
      /\ \A j \in {4} : "external" \notin a(j).mask
  BY <1>2 DEF GeneralDiagnosticsAttributes, Attribute, Constant, List, Globals, Writable, Internal, Nullable,
              External, ExternalNullable
<1> HIDE DEF c
<1>5. /\ \A j \in {1, 2, 3, 5, 6} : Stored(a(j)) = 0
      /\ \A j \in {4} : Stored(a(j)) = a(j).size
  BY <1>4 DEF Stored
<1> HIDE DEF a
<1>6. sums[0] = 0 /\ \A j \in 1..6 : sums[j] = sums[j - 1] + Stored(a(j))
  BY <1>1, SumsOfBytes DEF a
<1> HIDE DEF sums
<1>7. sums[1] = 0 /\ sums[2] = 0 /\ sums[3] = 0 /\ sums[4] = 1 /\ sums[5] = 1
  BY <1>3, <1>5, <1>6
<1>8. \A j \in 1..6 : Stored(a(j)) \in Nat /\ (Stored(a(j)) > 0 =>
        /\ a(j).size \in Nat /\ a(j).value \in Nat /\ Stored(a(j)) = a(j).size
        /\ sums[j - 1] \in Nat /\ sums[j - 1] + a(j).size <= 1)
  BY <1>3, <1>5, <1>6, <1>7
<1> QED BY <1>2, <1>8 DEF Fits, c, sums, a

LEMMA AdministratorFits == Fits(RootClusters[9], 4)
<1> DEFINE c == RootClusters[9]
           sums == AttributeSums(c)
           a(j) == AttributesOf(c)[j]
<1>1. c.attributes = 61 /\ c.count = 5
  BY DEF RootClusters, Cluster
<1>2. DOMAIN AttributesOf(c) = 1..5 /\ \A j \in 1..5 : a(j) = AdministratorCommissioningAttributes[j]
  <2>1. AttributesOf(c) = [j \in 1..5 |-> GENERATED_ATTRIBUTES[61 + j]]
    BY <1>1, Zenon DEF AttributesOf
  <2>2. \A j \in 1..5 : GENERATED_ATTRIBUTES[61 + j] = AdministratorCommissioningAttributes[j]
    BY AttributeRows, Zenon
  <2> HIDE DEF c
  <2> QED BY <2>1, <2>2
<1>3. \A j \in 1..5 : a(j).size = <<1, 1, 2, 4, 2>>[j] /\ a(j).value \in Nat
  BY <1>2 DEF AdministratorCommissioningAttributes, Attribute, Constant, List, Globals
<1>4. /\ \A j \in {1, 2, 3, 5} : "external" \in a(j).mask
      /\ \A j \in {4} : "external" \notin a(j).mask
  BY <1>2 DEF AdministratorCommissioningAttributes, Attribute, Constant, List, Globals, Writable, Internal, Nullable,
              External, ExternalNullable
<1> HIDE DEF c
<1>5. /\ \A j \in {1, 2, 3, 5} : Stored(a(j)) = 0
      /\ \A j \in {4} : Stored(a(j)) = a(j).size
  BY <1>4 DEF Stored
<1> HIDE DEF a
<1>6. sums[0] = 0 /\ \A j \in 1..5 : sums[j] = sums[j - 1] + Stored(a(j))
  BY <1>1, SumsOfBytes DEF a
<1> HIDE DEF sums
<1>7. sums[1] = 0 /\ sums[2] = 0 /\ sums[3] = 0 /\ sums[4] = 4
  BY <1>3, <1>5, <1>6
<1>8. \A j \in 1..5 : Stored(a(j)) \in Nat /\ (Stored(a(j)) > 0 =>
        /\ a(j).size \in Nat /\ a(j).value \in Nat /\ Stored(a(j)) = a(j).size
        /\ sums[j - 1] \in Nat /\ sums[j - 1] + a(j).size <= 4)
  BY <1>3, <1>5, <1>6, <1>7
<1> QED BY <1>2, <1>8 DEF Fits, c, sums, a

\* The measured value comes first and is null or two bytes; its limits follow.
LEMMA MeasurementBytes ==
  ASSUME NEW e \in 1..3
  PROVE  LET c == SensorClusters[3 * e]
             a(j) == AttributesOf(c)[j]
         IN  /\ Fits(c, 12) /\ DOMAIN AttributesOf(c) = 1..5
             /\ a(1).id = MeasuredValue /\ a(1).size = 2 /\ a(1).value = 0 /\ AttributeSums(c)[0] = 0
             /\ \A j \in 2..5 : a(j).id # MeasuredValue /\ AttributeSums(c)[j - 1] >= 2
             /\ \A j \in 1..5 : "writable" \notin a(j).mask
<1> DEFINE c == SensorClusters[3 * e]
           sums == AttributeSums(c)
           a(j) == AttributesOf(c)[j]
           revision == IF e = 3 THEN 3 ELSE 4
<1>1. c.attributes = 75 + 15 * e /\ c.count = 5
  BY DEF SensorClusters, Cluster
<1>2. DOMAIN AttributesOf(c) = 1..5 /\ \A j \in 1..5 : a(j) = MeasurementAttributes(revision)[j]
  <2> DEFINE start == 75 + 15 * e
  <2>1. AttributesOf(c) = [j \in 1..5 |-> GENERATED_ATTRIBUTES[start + j]]
    BY <1>1, Zenon DEF AttributesOf
  <2>2. \A j \in 1..5 : GENERATED_ATTRIBUTES[start + j] = MeasurementAttributes(revision)[j]
    <3>1. CASE e = 1
      BY <3>1, AttributeRows
    <3>2. CASE e = 2
      BY <3>2, AttributeRows
    <3>3. CASE e = 3
      BY <3>3, AttributeRows
    <3> QED BY <3>1, <3>2, <3>3
  <2> HIDE DEF c, start, revision
  <2> QED BY <2>1, <2>2
<1> HIDE DEF c, revision
<1>3. \A j \in 1..5 : a(j).size = <<2, 2, 2, 4, 2>>[j]
  BY <1>2 DEF MeasurementAttributes, Attribute, Constant
<1>4. a(1).value = 0 /\ \A j \in 1..5 : a(j).value \in Nat
  BY <1>2 DEF MeasurementAttributes, Attribute, Constant, revision
<1>5. \A j \in 1..5 : "external" \notin a(j).mask /\ "writable" \notin a(j).mask
  BY <1>2 DEF MeasurementAttributes, Attribute, Constant, Internal, Nullable
<1>6. a(1).id = MeasuredValue /\ \A j \in 2..5 : a(j).id # MeasuredValue
  BY <1>2 DEF MeasurementAttributes, Attribute, Constant, MeasuredValue, FeatureMap, ClusterRevision
<1>7. \A j \in 1..5 : Stored(a(j)) = a(j).size
  BY <1>5 DEF Stored
<1> HIDE DEF a
<1>8. sums[0] = 0 /\ \A j \in 1..5 : sums[j] = sums[j - 1] + Stored(a(j))
  BY <1>1, SumsOfBytes DEF a
<1> HIDE DEF sums
<1>9. sums[1] = 2 /\ sums[2] = 4 /\ sums[3] = 6 /\ sums[4] = 10
  BY <1>3, <1>7, <1>8
<1>10. \A j \in 1..5 : Stored(a(j)) \in Nat /\ (Stored(a(j)) > 0 =>
        /\ a(j).size \in Nat /\ a(j).value \in Nat /\ Stored(a(j)) = a(j).size
        /\ sums[j - 1] \in Nat /\ sums[j - 1] + a(j).size <= 12)
  BY <1>3, <1>4, <1>7, <1>8, <1>9
<1>11. Fits(c, 12)
  BY <1>2, <1>10 DEF Fits, sums, a
<1>12. sums[0] = 0 /\ \A j \in 2..5 : sums[j - 1] >= 2
  BY <1>8, <1>9
<1> QED BY <1>2, <1>3, <1>4, <1>5, <1>6, <1>11, <1>12 DEF c, sums, a

\* The clusters of which the SDK keeps nothing
LEMMA OutsideRows ==
  ASSUME NEW e \in Endpoints, NEW k \in DOMAIN ClustersOf(e),
         IF e = 0 THEN k \notin {4, 5, 8, 9} ELSE k \in {1, 2},
         NEW j \in DOMAIN AttributesOf(ClustersOf(e)[k])
  PROVE  "external" \in AttributesOf(ClustersOf(e)[k])[j].mask
<1> DEFINE c == ClustersOf(e)[k]
<1>1. c.attributes \in Nat /\ c.count \in Nat
      /\ \A i \in 1..c.count : c.attributes + i \in ExternalIndices
  <2> USE DEF ExternalIndices
  <2>1. CASE e = 0
    <3>1. k \in {1, 2, 3, 6, 7, 10, 11} /\ c = RootClusters[k]
      BY <2>1, RootRows
    <3>2. c.attributes \in Nat /\ c.count \in Nat /\
          \/ c.attributes + c.count <= 30
          \/ c.attributes >= 40 /\ c.attributes + c.count <= 55
          \/ c.attributes >= 66 /\ c.attributes + c.count <= 90
      BY <3>1 DEF RootClusters, Cluster
    <3> QED BY <3>2
  <2>2. CASE e \in 1..3
    <3>1. k \in {1, 2} /\ c = SensorClusters[3 * (e - 1) + k]
      BY <2>2, SensorRows
    <3>2. c.attributes = 50 + 15 * e + 15 + (IF k = 1 THEN 0 ELSE 4)
          /\ c.count = IF k = 1 THEN 4 ELSE 6
      BY <2>2, <3>1 DEF SensorClusters, Cluster
    <3> QED BY <2>2, <3>1, <3>2
  <2> QED BY <2>1, <2>2, EndpointsAre
<1> HIDE DEF c
<1>2. AttributesOf(c) = [i \in 1..c.count |-> GENERATED_ATTRIBUTES[c.attributes + i]]
  BY Zenon DEF AttributesOf
<1>3. j \in 1..c.count /\ AttributesOf(c)[j] = GENERATED_ATTRIBUTES[c.attributes + j]
  BY <1>2 DEF c
<1> QED BY <1>1, <1>3, ExternalRows, Zenon DEF c

LEMMA OffsetIs ==
  ASSUME NEW e, NEW k, NEW j
  PROVE  Offset(e, k, j) =
           BytesBefore[e] + ClusterSums(e)[k - 1] + AttributeSums(ClustersOf(e)[k])[j - 1]
BY Zenon DEF Offset, BytesBefore, ClusterSums, AttributeSums

\* A writable attribute that the SDK keeps is the active locale, which has a server.
LEMMA WritableStored ==
  ASSUME NEW e \in Endpoints, NEW k \in DOMAIN ClustersOf(e),
         NEW j \in DOMAIN AttributesOf(ClustersOf(e)[k]),
         "writable" \in AttributesOf(ClustersOf(e)[k])[j].mask,
         Stored(AttributesOf(ClustersOf(e)[k])[j]) > 0
  PROVE  ClustersOf(e)[k].id \in CodeDriven
<1>1. "external" \notin AttributesOf(ClustersOf(e)[k])[j].mask
  BY DEF Stored
<1>2. CASE e = 0
  <2>1. k \in {4, 5, 8, 9} /\ ClustersOf(e)[k] = RootClusters[k]
    BY <1>1, <1>2, OutsideRows, RootRows
  <2>2. k # 4
    BY <1>1, <1>2, <2>1, OtaFits
  <2>3. RootClusters[k].id \in CodeDriven
    BY <2>1, <2>2 DEF RootClusters, Cluster, CodeDriven
  <2> QED BY <2>1, <2>3
<1>3. CASE e \in 1..3
  <2>1. k = 3 /\ ClustersOf(e)[k] = SensorClusters[3 * e]
    BY <1>1, <1>3, OutsideRows, SensorRows
  <2> QED BY <1>3, <2>1, MeasurementBytes
<1> QED BY <1>2, <1>3, EndpointsAre

\* What the root endpoint stores ends before the bytes of endpoint 1.
LEMMA RootStored ==
  ASSUME NEW k \in DOMAIN ClustersOf(0), NEW j \in DOMAIN AttributesOf(ClustersOf(0)[k]),
         Stored(AttributesOf(ClustersOf(0)[k])[j]) > 0
  PROVE  LET a == AttributesOf(ClustersOf(0)[k])[j]
         IN  /\ a.size \in Nat /\ a.size > 0 /\ a.value \in Nat
             /\ Offset(0, k, j) \in Nat /\ Offset(0, k, j) + a.size <= 54
<1> DEFINE c == ClustersOf(0)[k]
           a == AttributesOf(c)[j]
           at == AttributeSums(c)[j - 1]
<1>1. "external" \notin a.mask /\ 0 \in Endpoints
  BY EndpointsAre DEF Stored
<1>2. k \in {4, 5, 8, 9} /\ c = RootClusters[k]
  BY <1>1, OutsideRows, RootRows
<1>3. Offset(0, k, j) = ClusterSums(0)[k - 1] + at
  <2>1. Offset(0, k, j) = BytesBefore[0] + ClusterSums(0)[k - 1] + at
    BY OffsetIs
  <2>2. ClusterSums(0)[k - 1] \in Nat /\ BytesBefore[0] = 0
    BY <1>2, RootSums, EndpointSums
  <2> QED BY <2>1, <2>2
<1> HIDE DEF at, a
<1>4. PICK room \in Nat : Fits(c, room) /\ ClusterSums(0)[k - 1] \in Nat
                            /\ ClusterSums(0)[k - 1] + room <= 54
  <2> HIDE DEF c
  <2>1. CASE k = 4
    BY <1>2, <2>1, OtaFits, RootSums
  <2>2. CASE k = 5
    BY <1>2, <2>2, LocalizationFits, RootSums
  <2>3. CASE k = 8
    BY <1>2, <2>3, DiagnosticsFits, RootSums
  <2>4. CASE k = 9
    BY <1>2, <2>4, AdministratorFits, RootSums
  <2> QED BY <1>2, <2>1, <2>2, <2>3, <2>4
<1>5. /\ a.size \in Nat /\ a.value \in Nat /\ Stored(a) = a.size /\ at \in Nat
      /\ at + a.size <= room
  BY <1>4 DEF Fits, a, at
<1>6. Stored(a) > 0
  BY DEF a
<1> HIDE DEF c
<1>7. /\ a.size > 0 /\ Offset(0, k, j) \in Nat /\ Offset(0, k, j) + a.size <= 54
  BY <1>3, <1>4, <1>5, <1>6
<1> QED BY <1>5, <1>7 DEF c, a

\* What another endpoint stores are its measurement's attributes, in its own bytes.
LEMMA SensorStored ==
  ASSUME NEW e \in 1..3, NEW k \in DOMAIN ClustersOf(e),
         NEW j \in DOMAIN AttributesOf(ClustersOf(e)[k]),
         Stored(AttributesOf(ClustersOf(e)[k])[j]) > 0
  PROVE  LET a == AttributesOf(ClustersOf(e)[k])[j]
             at == Offset(e, k, j)
         IN  /\ k = 3 /\ a.size \in Nat /\ a.size > 0 /\ a.value \in Nat
             /\ at \in Nat /\ at + a.size <= 54 + 12 * e
             /\ a.id = MeasuredValue => at = 42 + 12 * e /\ a.size = 2 /\ a.value = 0
             /\ a.id # MeasuredValue => at >= 44 + 12 * e
<1> DEFINE c == ClustersOf(e)[k]
           a == AttributesOf(c)[j]
           before == AttributeSums(c)[j - 1]
<1>1. "external" \notin a.mask /\ e \in Endpoints
  BY EndpointsAre DEF Stored
<1>2. k = 3 /\ c = SensorClusters[3 * e]
  BY <1>1, OutsideRows, SensorRows
<1>3. Offset(e, k, j) = 42 + 12 * e + before
  <2>1. Offset(e, k, j) = BytesBefore[e] + ClusterSums(e)[k - 1] + before
    BY OffsetIs
  <2>2. BytesBefore[e] = 42 + 12 * e /\ ClusterSums(e)[k - 1] = 0
    BY <1>2, SensorSums, EndpointSums
  <2> QED BY <2>1, <2>2
<1>4. /\ Fits(c, 12) /\ j \in 1..5
      /\ j = 1 => a.id = MeasuredValue /\ a.size = 2 /\ a.value = 0 /\ before = 0
      /\ j # 1 => a.id # MeasuredValue /\ before >= 2
  BY <1>2, MeasurementBytes
<1>5. /\ a.size \in Nat /\ a.value \in Nat /\ Stored(a) = a.size /\ before \in Nat
      /\ before + a.size <= 12
  BY <1>4 DEF Fits
<1>6. Stored(a) > 0
  OBVIOUS
<1> HIDE DEF a, before
<1>7. /\ a.size > 0 /\ Offset(e, k, j) \in Nat /\ Offset(e, k, j) + a.size <= 54 + 12 * e
      /\ j # 1 => Offset(e, k, j) >= 44 + 12 * e
      /\ j = 1 => Offset(e, k, j) = 42 + 12 * e
  BY <1>3, <1>4, <1>5, <1>6
<1> QED BY <1>2, <1>4, <1>5, <1>7 DEF a

LEMMA StoredIs ==
  ASSUME NEW s \in StoredAttributes
  PROVE  \E e \in Endpoints : \E k \in DOMAIN ClustersOf(e) :
           \E j \in DOMAIN AttributesOf(ClustersOf(e)[k]) :
             /\ s = [endpoint |-> e, cluster |-> ClustersOf(e)[k].id,
                     attribute |-> AttributesOf(ClustersOf(e)[k])[j], at |-> Offset(e, k, j)]
             /\ Stored(AttributesOf(ClustersOf(e)[k])[j]) > 0
BY DEF StoredAttributes

\* An attribute of a cluster ends before the ones behind it begin.
LEMMA InOrder ==
  ASSUME NEW c, c.count \in Nat, NEW room, Fits(c, room),
         NEW i \in DOMAIN AttributesOf(c), NEW j \in DOMAIN AttributesOf(c), i < j
  PROVE  /\ AttributeSums(c)[i - 1] \in Nat /\ AttributeSums(c)[j - 1] \in Nat
         /\ AttributeSums(c)[i - 1] + Stored(AttributesOf(c)[i]) <= AttributeSums(c)[j - 1]
<1> DEFINE bytes == [n \in 1..c.count |-> Stored(AttributesOf(c)[n])]
           sums == SumsOf(bytes, c.count)
<1>1. DOMAIN AttributesOf(c) = 1..c.count
  BY DEF AttributesOf
<1>2. \A n \in 1..c.count : bytes[n] = Stored(AttributesOf(c)[n]) /\ bytes[n] \in Nat
  BY <1>1 DEF Fits
<1>3. AttributeSums(c) = sums
  BY DEF AttributeSums
<1> HIDE DEF bytes
<1>4. sums[i - 1] \in Nat /\ sums[j - 1] \in Nat /\ sums[i] <= sums[j - 1]
  <2>1. i - 1 \in 0..c.count /\ j - 1 \in 0..c.count /\ i \in 0..(j - 1)
    BY <1>1
  <2>2. \A n \in 1..c.count : bytes[n] \in Nat
    BY <1>2
  <2> QED BY <2>1, <2>2, SumsGrow
<1>5. sums[i] = sums[i - 1] + bytes[i]
  BY <1>1, SumsAre
<1> HIDE DEF sums
<1> QED BY <1>1, <1>2, <1>3, <1>4, <1>5

\* The clusters that the SDK keeps bytes for, and the rooms they have, one behind the other
RoomAt(e, k, start, room) ==
  \/ e = 0 /\ k = 4 /\ start = 0 /\ room = 9
  \/ e = 0 /\ k = 5 /\ start = 9 /\ room = 40
  \/ e = 0 /\ k = 8 /\ start = 49 /\ room = 1
  \/ e = 0 /\ k = 9 /\ start = 50 /\ room = 4
  \/ e \in 1..3 /\ k = 3 /\ start = 42 + 12 * e /\ room = 12

LEMMA RoomOf ==
  ASSUME NEW e \in Endpoints, NEW k \in DOMAIN ClustersOf(e),
         NEW j \in DOMAIN AttributesOf(ClustersOf(e)[k]),
         Stored(AttributesOf(ClustersOf(e)[k])[j]) > 0
  PROVE  \E start \in Nat, room \in Nat :
           /\ RoomAt(e, k, start, room) /\ Fits(ClustersOf(e)[k], room)
           /\ ClustersOf(e)[k].count \in Nat
           /\ BytesBefore[e] + ClusterSums(e)[k - 1] = start
<1>1. "external" \notin AttributesOf(ClustersOf(e)[k])[j].mask
  BY DEF Stored
<1>2. CASE e = 0
  <2>1. k \in {4, 5, 8, 9} /\ ClustersOf(e)[k] = RootClusters[k]
    BY <1>1, <1>2, OutsideRows, RootRows
  <2>2. \A l \in {4, 5, 8, 9} : RootClusters[l].count \in Nat
    BY DEF RootClusters, Cluster
  <2>3. CASE k = 4
    BY <1>2, <2>1, <2>2, <2>3, OtaFits, RootSums, EndpointSums DEF RoomAt
  <2>4. CASE k = 5
    BY <1>2, <2>1, <2>2, <2>4, LocalizationFits, RootSums, EndpointSums DEF RoomAt
  <2>5. CASE k = 8
    BY <1>2, <2>1, <2>2, <2>5, DiagnosticsFits, RootSums, EndpointSums DEF RoomAt
  <2>6. CASE k = 9
    BY <1>2, <2>1, <2>2, <2>6, AdministratorFits, RootSums, EndpointSums DEF RoomAt
  <2> QED BY <2>1, <2>3, <2>4, <2>5, <2>6
<1>3. CASE e \in 1..3
  <2>1. k = 3 /\ ClustersOf(e)[k] = SensorClusters[3 * e]
    BY <1>1, <1>3, OutsideRows, SensorRows
  <2>2. SensorClusters[3 * e].count \in Nat
    BY <1>3 DEF SensorClusters, Cluster
  <2>3. BytesBefore[e] = 42 + 12 * e /\ ClusterSums(e)[k - 1] = 0
    BY <1>3, <2>1, SensorSums, EndpointSums
  <2> QED BY <1>3, <2>1, <2>2, <2>3, MeasurementBytes DEF RoomAt
<1> QED BY <1>2, <1>3, EndpointsAre

\* Where an attribute with bytes of its own is
PlacedAt(s, e, k, j) ==
  /\ s.endpoint = e /\ s.attribute = AttributesOf(ClustersOf(e)[k])[j]
  /\ s = [endpoint |-> e, cluster |-> ClustersOf(e)[k].id,
          attribute |-> AttributesOf(ClustersOf(e)[k])[j], at |-> Offset(e, k, j)]
  /\ s.at \in Nat /\ s.attribute.size \in Nat /\ s.attribute.size > 0
  /\ Stored(s.attribute) = s.attribute.size
  /\ \E start \in Nat, room \in Nat :
       /\ RoomAt(e, k, start, room) /\ Fits(ClustersOf(e)[k], room)
       /\ ClustersOf(e)[k].count \in Nat
       /\ AttributeSums(ClustersOf(e)[k])[j - 1] \in Nat
       /\ s.at = start + AttributeSums(ClustersOf(e)[k])[j - 1]
       /\ s.at + s.attribute.size <= start + room

LEMMA Placed ==
  ASSUME NEW s \in StoredAttributes
  PROVE  \E e \in Endpoints : \E k \in DOMAIN ClustersOf(e) :
           \E j \in DOMAIN AttributesOf(ClustersOf(e)[k]) : PlacedAt(s, e, k, j)
<1>1. PICK e \in Endpoints : \E k \in DOMAIN ClustersOf(e) :
           \E j \in DOMAIN AttributesOf(ClustersOf(e)[k]) :
             /\ s = [endpoint |-> e, cluster |-> ClustersOf(e)[k].id,
                     attribute |-> AttributesOf(ClustersOf(e)[k])[j], at |-> Offset(e, k, j)]
             /\ Stored(AttributesOf(ClustersOf(e)[k])[j]) > 0
  BY StoredIs, Zenon
<1>2. PICK k \in DOMAIN ClustersOf(e) : \E j \in DOMAIN AttributesOf(ClustersOf(e)[k]) :
             /\ s = [endpoint |-> e, cluster |-> ClustersOf(e)[k].id,
                     attribute |-> AttributesOf(ClustersOf(e)[k])[j], at |-> Offset(e, k, j)]
             /\ Stored(AttributesOf(ClustersOf(e)[k])[j]) > 0
  BY <1>1, Zenon
<1>3. PICK j \in DOMAIN AttributesOf(ClustersOf(e)[k]) :
             /\ s = [endpoint |-> e, cluster |-> ClustersOf(e)[k].id,
                     attribute |-> AttributesOf(ClustersOf(e)[k])[j], at |-> Offset(e, k, j)]
             /\ Stored(AttributesOf(ClustersOf(e)[k])[j]) > 0
  BY <1>2, Zenon
<1> DEFINE c == ClustersOf(e)[k]
           a == AttributesOf(c)[j]
           before == AttributeSums(c)[j - 1]
<1>4. PICK start \in Nat, room \in Nat :
           /\ RoomAt(e, k, start, room) /\ Fits(c, room) /\ c.count \in Nat
           /\ BytesBefore[e] + ClusterSums(e)[k - 1] = start
  BY <1>3, RoomOf
<1>5. /\ a.size \in Nat /\ Stored(a) = a.size /\ before \in Nat /\ before + a.size <= room
      /\ a.size > 0
  BY <1>3, <1>4 DEF Fits
<1>6. Offset(e, k, j) = start + before
  BY <1>4, OffsetIs
<1>7. s.endpoint = e /\ s.attribute = a /\ s.at = Offset(e, k, j)
  BY <1>3
<1> HIDE DEF a, before, c
<1>8. s.at \in Nat /\ s.at = start + before /\ s.at + a.size <= start + room
  BY <1>5, <1>6, <1>7
<1>9. PlacedAt(s, e, k, j)
  BY <1>3, <1>4, <1>5, <1>7, <1>8, Zenon DEF PlacedAt, a, c, before
<1> QED BY <1>9, Zenon DEF c

\* Two attributes at the same place are one.
LEMMA SamePlace ==
  ASSUME NEW s, NEW t, NEW e, NEW k, NEW j, PlacedAt(s, e, k, j), PlacedAt(t, e, k, j)
  PROVE  s = t
BY Zenon DEF PlacedAt

LEMMA ApartInCluster ==
  ASSUME NEW s, NEW t, NEW e, NEW k,
         NEW i \in DOMAIN AttributesOf(ClustersOf(e)[k]),
         NEW j \in DOMAIN AttributesOf(ClustersOf(e)[k]),
         PlacedAt(s, e, k, i), PlacedAt(t, e, k, j), i < j
  PROVE  s.at + s.attribute.size <= t.at
<1> DEFINE c == ClustersOf(e)[k]
           before == AttributeSums(c)
<1>1. PICK start \in Nat, room \in Nat :
           /\ RoomAt(e, k, start, room) /\ Fits(c, room) /\ c.count \in Nat
           /\ before[i - 1] \in Nat /\ s.at = start + before[i - 1]
  BY Zenon DEF PlacedAt
<1>2. PICK start2 \in Nat, room2 \in Nat :
           /\ RoomAt(e, k, start2, room2) /\ before[j - 1] \in Nat /\ t.at = start2 + before[j - 1]
  BY Zenon DEF PlacedAt
<1>3. start2 = start
  BY <1>1, <1>2 DEF RoomAt
<1>4. s.attribute = AttributesOf(c)[i] /\ Stored(s.attribute) = s.attribute.size /\ s.attribute.size \in Nat
  BY Zenon DEF PlacedAt
<1>5. before[i - 1] + Stored(AttributesOf(c)[i]) <= before[j - 1]
  BY <1>1, InOrder
<1> HIDE DEF c, before
<1>6. before[i - 1] + s.attribute.size <= before[j - 1]
  BY <1>4, <1>5
<1> QED BY <1>1, <1>2, <1>3, <1>4, <1>6

LEMMA ApartAmongClusters ==
  ASSUME NEW s, NEW t, NEW e, NEW k, NEW i, NEW f, NEW l, NEW j,
         PlacedAt(s, e, k, i), PlacedAt(t, f, l, j), ~(e = f /\ k = l)
  PROVE  s.at + s.attribute.size <= t.at \/ t.at + t.attribute.size <= s.at
<1>1. PICK start \in Nat, room \in Nat :
           /\ RoomAt(e, k, start, room) /\ start <= s.at /\ s.at + s.attribute.size <= start + room
  BY DEF PlacedAt
<1>2. PICK start2 \in Nat, room2 \in Nat :
           /\ RoomAt(f, l, start2, room2) /\ start2 <= t.at /\ t.at + t.attribute.size <= start2 + room2
  BY DEF PlacedAt
<1>3. start + room <= start2 \/ start2 + room2 <= start
  BY <1>1, <1>2 DEF RoomAt
<1>4. s.at \in Nat /\ s.attribute.size \in Nat /\ t.at \in Nat /\ t.attribute.size \in Nat
  BY Zenon DEF PlacedAt
<1> QED BY <1>1, <1>2, <1>3, <1>4

\* The sizes that the header states for endpoints, clusters and attributes add up:
\* every attribute that the SDK keeps has bytes of its own within the SDK's storage,
\* and no two attributes share a byte.
THEOREM StorageDisjoint ==
  \A s, t \in StoredAttributes :
    /\ s.at \in Nat /\ s.attribute.size \in Nat \ {0}
    /\ s.at + s.attribute.size <= ATTRIBUTE_MAX_SIZE
    /\ s # t => s.at + s.attribute.size <= t.at \/ t.at + t.attribute.size <= s.at
<1> SUFFICES ASSUME NEW s \in StoredAttributes, NEW t \in StoredAttributes
    PROVE  /\ s.at \in Nat /\ s.attribute.size \in Nat \ {0}
           /\ s.at + s.attribute.size <= ATTRIBUTE_MAX_SIZE
           /\ s # t => s.at + s.attribute.size <= t.at \/ t.at + t.attribute.size <= s.at
  OBVIOUS
<1>1. PICK e \in Endpoints : \E k \in DOMAIN ClustersOf(e) :
           \E i \in DOMAIN AttributesOf(ClustersOf(e)[k]) : PlacedAt(s, e, k, i)
  BY Placed, Zenon
<1>2. PICK k \in DOMAIN ClustersOf(e) :
           \E i \in DOMAIN AttributesOf(ClustersOf(e)[k]) : PlacedAt(s, e, k, i)
  BY <1>1, Zenon
<1>3. PICK i \in DOMAIN AttributesOf(ClustersOf(e)[k]) : PlacedAt(s, e, k, i)
  BY <1>2, Zenon
<1>4. PICK f \in Endpoints : \E l \in DOMAIN ClustersOf(f) :
           \E j \in DOMAIN AttributesOf(ClustersOf(f)[l]) : PlacedAt(t, f, l, j)
  BY Placed, Zenon
<1>5. PICK l \in DOMAIN ClustersOf(f) :
           \E j \in DOMAIN AttributesOf(ClustersOf(f)[l]) : PlacedAt(t, f, l, j)
  BY <1>4, Zenon
<1>6. PICK j \in DOMAIN AttributesOf(ClustersOf(f)[l]) : PlacedAt(t, f, l, j)
  BY <1>5, Zenon
<1>7. s.at \in Nat /\ s.attribute.size \in Nat /\ s.attribute.size > 0
  BY <1>3, Zenon DEF PlacedAt
<1>8. s.at + s.attribute.size <= ATTRIBUTE_MAX_SIZE
  <2>1. PICK start \in Nat, room \in Nat :
             RoomAt(e, k, start, room) /\ s.at + s.attribute.size <= start + room
    BY <1>3, Zenon DEF PlacedAt
  <2>2. start + room <= 90
    BY <2>1 DEF RoomAt
  <2> QED BY <1>7, <2>1, <2>2 DEF ATTRIBUTE_MAX_SIZE
<1>9. ASSUME s # t
      PROVE  s.at + s.attribute.size <= t.at \/ t.at + t.attribute.size <= s.at
  <2>1. CASE ~(e = f /\ k = l)
    BY <1>3, <1>6, <2>1, ApartAmongClusters
  <2>2. CASE e = f /\ k = l
    <3>1. PlacedAt(t, e, k, j) /\ j \in DOMAIN AttributesOf(ClustersOf(e)[k])
      BY <1>6, <2>2, Zenon
    <3>2. i # j
      BY <1>3, <1>9, <3>1, SamePlace, Zenon
    <3>3. i \in Int /\ j \in Int
      BY <3>1 DEF AttributesOf
    <3>4. CASE i < j
      BY <1>3, <3>1, <3>4, ApartInCluster
    <3>5. CASE j < i
      BY <1>3, <3>1, <3>5, ApartInCluster
    <3> QED BY <3>2, <3>3, <3>4, <3>5
  <2> QED BY <2>1, <2>2
<1> QED BY <1>7, <1>8, <1>9

-----------------------------------------------------------------------------
(* Commands *)

FirstOf(list, n) == { list[i] : i \in 1..n }

IsList(first, list, n) ==
  /\ first + n + 1 <= 50 /\ GENERATED_COMMANDS[first + n + 1] = EndOfList
  /\ \A i \in 1..n : GENERATED_COMMANDS[first + i] = list[i] /\ list[i] \in Nat

\* A list goes as far as the next end of a list.
LEMMA ListIs ==
  ASSUME NEW first \in Nat, NEW n \in Nat, NEW list, IsList(first, list, n)
  PROVE  CommandsFrom(first) = FirstOf(list, n)
<1> USE DEF IsList
<1> DEFINE G == GENERATED_COMMANDS
           In(j) == \A k \in (first + 1)..j : G[k] # EndOfList
           indices == { j \in (first + 1)..Len(G) : In(j) }
<1>1. Len(G) = 50
  BY DEF GENERATED_COMMANDS, IdentifyCommands
<1>2. \A i \in (first + 1)..(first + n) : G[i] = list[i - first] /\ list[i - first] \in Nat
  <2> SUFFICES ASSUME NEW i \in (first + 1)..(first + n)
               PROVE  G[i] = list[i - first] /\ list[i - first] \in Nat
    OBVIOUS
  <2>1. i - first \in 1..n /\ first + (i - first) = i
    OBVIOUS
  <2> QED BY <2>1
<1> HIDE DEF G
<1>3. \A j \in (first + 1)..(first + n) : In(j)
  BY <1>2 DEF EndOfList
<1>4. \A j \in (first + n + 1)..50 : ~In(j)
  BY DEF G
<1>5. indices = (first + 1)..(first + n)
  <2> HIDE DEF In
  <2> QED BY <1>1, <1>3, <1>4
<1>6. first # NoList
  BY DEF NoList
<1>7. CommandsFrom(first) = { G[i] : i \in (first + 1)..(first + n) }
  BY <1>5, <1>6, Zenon DEF CommandsFrom, G
<1>8. { G[i] : i \in (first + 1)..(first + n) } = FirstOf(list, n)
  <2> USE DEF FirstOf
  <2>1. \A i \in 1..n : first + i \in (first + 1)..(first + n) /\ first + i - first = i
    OBVIOUS
  <2>2. \A i \in (first + 1)..(first + n) : i - first \in 1..n
    OBVIOUS
  <2> QED BY <1>2, <2>1, <2>2
<1> QED BY <1>7, <1>8

LEMMA CommandsAre ==
  /\ CommandsFrom(0) = {0, 2, 4}
  /\ CommandsFrom(4) = {1, 3, 5}
  /\ CommandsFrom(8) = {0, 1}
  /\ CommandsFrom(11) = {2}
  /\ CommandsFrom(13) = {0, 2}
  /\ CommandsFrom(16) = {0, 2, 4, 6, 7, 9, 10, 11, 12, 13}
  /\ CommandsFrom(27) = {1, 3, 5, 8, 14}
  /\ CommandsFrom(33) = {0, 1, 3, 4}
  /\ CommandsFrom(38) = {2, 5}
  /\ CommandsFrom(41) = {0, 64}
  /\ CommandsFrom(44) = {0, 64}
  /\ CommandsFrom(47) = {0, 64}
<1>1. CommandsFrom(0) = {0, 2, 4}
  <2> DEFINE list == <<0, 2, 4>>
  <2>1. IsList(0, list, 3)
    BY DEF IsList, GENERATED_COMMANDS, IdentifyCommands
  <2>2. FirstOf(list, 3) = {0, 2, 4}
    BY DEF FirstOf
  <2> HIDE DEF list
  <2>3. CommandsFrom(0) = FirstOf(list, 3)
    BY <2>1, ListIs
  <2> QED BY <2>2, <2>3
<1>2. CommandsFrom(4) = {1, 3, 5}
  <2> DEFINE list == <<1, 3, 5>>
  <2>1. IsList(4, list, 3)
    BY DEF IsList, GENERATED_COMMANDS, IdentifyCommands
  <2>2. FirstOf(list, 3) = {1, 3, 5}
    BY DEF FirstOf
  <2> HIDE DEF list
  <2>3. CommandsFrom(4) = FirstOf(list, 3)
    BY <2>1, ListIs
  <2> QED BY <2>2, <2>3
<1>3. CommandsFrom(8) = {0, 1}
  <2> DEFINE list == <<0, 1>>
  <2>1. IsList(8, list, 2)
    BY DEF IsList, GENERATED_COMMANDS, IdentifyCommands
  <2>2. FirstOf(list, 2) = {0, 1}
    BY DEF FirstOf
  <2> HIDE DEF list
  <2>3. CommandsFrom(8) = FirstOf(list, 2)
    BY <2>1, ListIs
  <2> QED BY <2>2, <2>3
<1>4. CommandsFrom(11) = {2}
  <2> DEFINE list == <<2>>
  <2>1. IsList(11, list, 1)
    BY DEF IsList, GENERATED_COMMANDS, IdentifyCommands
  <2>2. FirstOf(list, 1) = {2}
    BY DEF FirstOf
  <2> HIDE DEF list
  <2>3. CommandsFrom(11) = FirstOf(list, 1)
    BY <2>1, ListIs
  <2> QED BY <2>2, <2>3
<1>5. CommandsFrom(13) = {0, 2}
  <2> DEFINE list == <<0, 2>>
  <2>1. IsList(13, list, 2)
    BY DEF IsList, GENERATED_COMMANDS, IdentifyCommands
  <2>2. FirstOf(list, 2) = {0, 2}
    BY DEF FirstOf
  <2> HIDE DEF list
  <2>3. CommandsFrom(13) = FirstOf(list, 2)
    BY <2>1, ListIs
  <2> QED BY <2>2, <2>3
<1>6. CommandsFrom(16) = {0, 2, 4, 6, 7, 9, 10, 11, 12, 13}
  <2> DEFINE list == <<0, 2, 4, 6, 7, 9, 10, 11, 12, 13>>
  <2>1. IsList(16, list, 10)
    BY DEF IsList, GENERATED_COMMANDS, IdentifyCommands
  <2>2. FirstOf(list, 10) = {0, 2, 4, 6, 7, 9, 10, 11, 12, 13}
    BY DEF FirstOf
  <2> HIDE DEF list
  <2>3. CommandsFrom(16) = FirstOf(list, 10)
    BY <2>1, ListIs
  <2> QED BY <2>2, <2>3
<1>7. CommandsFrom(27) = {1, 3, 5, 8, 14}
  <2> DEFINE list == <<1, 3, 5, 8, 14>>
  <2>1. IsList(27, list, 5)
    BY DEF IsList, GENERATED_COMMANDS, IdentifyCommands
  <2>2. FirstOf(list, 5) = {1, 3, 5, 8, 14}
    BY DEF FirstOf
  <2> HIDE DEF list
  <2>3. CommandsFrom(27) = FirstOf(list, 5)
    BY <2>1, ListIs
  <2> QED BY <2>2, <2>3
<1>8. CommandsFrom(33) = {0, 1, 3, 4}
  <2> DEFINE list == <<0, 1, 3, 4>>
  <2>1. IsList(33, list, 4)
    BY DEF IsList, GENERATED_COMMANDS, IdentifyCommands
  <2>2. FirstOf(list, 4) = {0, 1, 3, 4}
    BY DEF FirstOf
  <2> HIDE DEF list
  <2>3. CommandsFrom(33) = FirstOf(list, 4)
    BY <2>1, ListIs
  <2> QED BY <2>2, <2>3
<1>9. CommandsFrom(38) = {2, 5}
  <2> DEFINE list == <<2, 5>>
  <2>1. IsList(38, list, 2)
    BY DEF IsList, GENERATED_COMMANDS, IdentifyCommands
  <2>2. FirstOf(list, 2) = {2, 5}
    BY DEF FirstOf
  <2> HIDE DEF list
  <2>3. CommandsFrom(38) = FirstOf(list, 2)
    BY <2>1, ListIs
  <2> QED BY <2>2, <2>3
<1>10. CommandsFrom(41) = {0, 64}
  <2> DEFINE list == <<0, 64>>
  <2>1. IsList(41, list, 2)
    BY DEF IsList, GENERATED_COMMANDS, IdentifyCommands
  <2>2. FirstOf(list, 2) = {0, 64}
    BY DEF FirstOf
  <2> HIDE DEF list
  <2>3. CommandsFrom(41) = FirstOf(list, 2)
    BY <2>1, ListIs
  <2> QED BY <2>2, <2>3
<1>11. CommandsFrom(44) = {0, 64}
  <2> DEFINE list == <<0, 64>>
  <2>1. IsList(44, list, 2)
    BY DEF IsList, GENERATED_COMMANDS, IdentifyCommands
  <2>2. FirstOf(list, 2) = {0, 64}
    BY DEF FirstOf
  <2> HIDE DEF list
  <2>3. CommandsFrom(44) = FirstOf(list, 2)
    BY <2>1, ListIs
  <2> QED BY <2>2, <2>3
<1>12. CommandsFrom(47) = {0, 64}
  <2> DEFINE list == <<0, 64>>
  <2>1. IsList(47, list, 2)
    BY DEF IsList, GENERATED_COMMANDS, IdentifyCommands
  <2>2. FirstOf(list, 2) = {0, 64}
    BY DEF FirstOf
  <2> HIDE DEF list
  <2>3. CommandsFrom(47) = FirstOf(list, 2)
    BY <2>1, ListIs
  <2> QED BY <2>2, <2>3
<1> QED BY <1>1, <1>2, <1>3, <1>4, <1>5, <1>6, <1>7, <1>8, <1>9, <1>10, <1>11, <1>12

LEMMA EnabledAre ==
  /\ EnabledCommands("GeneralCommissioning") = {0, 2, 4}
  /\ EnabledCommands("GeneralDiagnostics") = {0, 1}
  /\ EnabledCommands("AdministratorCommissioning") = {0, 2}
  /\ EnabledCommands("OperationalCredentials") = {0, 2, 4, 6, 7, 9, 10, 11, 12, 13}
  /\ EnabledCommands("GroupKeyManagement") = {0, 1, 3, 4}
  /\ EnabledCommands("Identify") = {0, 64}
  /\ \A c \in {"Descriptor", "AccessControl", "BasicInformation", "OtaSoftwareUpdateRequestor",
               "LocalizationConfiguration", "NetworkCommissioning", "TemperatureMeasurement",
               "RelativeHumidityMeasurement"} : EnabledCommands(c) = {}
<1>1. EnabledCommands("GeneralCommissioning") = {0, 2, 4}
  BY DEF EnabledCommands
<1>2. EnabledCommands("GeneralDiagnostics") = {0, 1}
  BY DEF EnabledCommands
<1>3. EnabledCommands("AdministratorCommissioning") = {0, 2}
  BY DEF EnabledCommands
<1>4. EnabledCommands("OperationalCredentials") = {0, 2, 4, 6, 7, 9, 10, 11, 12, 13}
  BY DEF EnabledCommands
<1>5. EnabledCommands("GroupKeyManagement") = {0, 1, 3, 4}
  BY DEF EnabledCommands
<1>6. EnabledCommands("Identify") = {0, 64}
  BY DEF EnabledCommands
<1>7. ASSUME NEW c \in {"Descriptor", "AccessControl", "BasicInformation",
               "OtaSoftwareUpdateRequestor", "LocalizationConfiguration", "NetworkCommissioning",
               "TemperatureMeasurement", "RelativeHumidityMeasurement"}
      PROVE  EnabledCommands(c) = {}
  BY DEF EnabledCommands
<1> QED BY <1>1, <1>2, <1>3, <1>4, <1>5, <1>6, <1>7

\* The lists of a cluster name the commands that its flags enable and that have a
\* server, and none of them is a response.
CommandsMatch(c) ==
  /\ c.accepted # NoList => c.id \in CodeDriven /\ CommandsFrom(c.accepted) = EnabledCommands(c.id)
  /\ c.accepted = NoList => EnabledCommands(c.id) = {} /\ CommandsFrom(c.accepted) = {}
  /\ EnabledCommands(c.id) \subseteq 0..64
  /\ CommandsFrom(c.accepted) \cap CommandsFrom(c.generated) = {}

LEMMA CommandRows ==
  ASSUME NEW e \in Endpoints, NEW k \in DOMAIN ClustersOf(e)
  PROVE  CommandsMatch(ClustersOf(e)[k])
<1>1. CommandsFrom(NoList) = {}
  BY DEF CommandsFrom
<1>2. ASSUME NEW id, NEW start, NEW count, NEW size, NEW accepted \in Nat, NEW generated,
             id \in CodeDriven, CommandsFrom(accepted) = EnabledCommands(id),
             EnabledCommands(id) \subseteq 0..64,
             EnabledCommands(id) \cap CommandsFrom(generated) = {}
      PROVE  CommandsMatch(Cluster(id, start, count, size, accepted, generated))
  BY <1>2 DEF CommandsMatch, Cluster, NoList
<1>3. ASSUME NEW id, NEW start, NEW count, NEW size, EnabledCommands(id) = {}
      PROVE  CommandsMatch(Cluster(id, start, count, size, NoList, NoList))
  BY <1>1, <1>3 DEF CommandsMatch, Cluster
<1>4. CASE e = 0
  <2>1. k \in 1..11 /\ ClustersOf(e)[k] = RootClusters[k]
    BY <1>4, RootRows
  <2>2. CASE k = 6
    <3>1. RootClusters[6] = Cluster("GeneralCommissioning", 40, 7, 0, 0, 4)
      BY DEF RootClusters
    <3>2. /\ EnabledCommands("GeneralCommissioning") = {0, 2, 4}
          /\ CommandsFrom(0) = {0, 2, 4} /\ CommandsFrom(4) = {1, 3, 5}
      BY <1>1, CommandsAre, EnabledAre, Zenon
    <3>3. CommandsMatch(Cluster("GeneralCommissioning", 40, 7, 0, 0, 4))
      BY <1>2, <3>2 DEF CodeDriven
    <3> QED BY <2>1, <2>2, <3>1, <3>3
  <2>3. CASE k = 8
    <3>1. RootClusters[8] = Cluster("GeneralDiagnostics", 55, 6, 1, 8, 11)
      BY DEF RootClusters
    <3>2. /\ EnabledCommands("GeneralDiagnostics") = {0, 1}
          /\ CommandsFrom(8) = {0, 1} /\ CommandsFrom(11) = {2}
      BY <1>1, CommandsAre, EnabledAre, Zenon
    <3>3. CommandsMatch(Cluster("GeneralDiagnostics", 55, 6, 1, 8, 11))
      BY <1>2, <3>2 DEF CodeDriven
    <3> QED BY <2>1, <2>3, <3>1, <3>3
  <2>4. CASE k = 9
    <3>1. RootClusters[9] = Cluster("AdministratorCommissioning", 61, 5, 4, 13, NoList)
      BY DEF RootClusters
    <3>2. /\ EnabledCommands("AdministratorCommissioning") = {0, 2}
          /\ CommandsFrom(13) = {0, 2} /\ CommandsFrom(NoList) = {}
      BY <1>1, CommandsAre, EnabledAre, Zenon
    <3>3. CommandsMatch(Cluster("AdministratorCommissioning", 61, 5, 4, 13, NoList))
      BY <1>2, <3>2 DEF CodeDriven
    <3> QED BY <2>1, <2>4, <3>1, <3>3
  <2>5. CASE k = 10
    <3>1. RootClusters[10] = Cluster("OperationalCredentials", 66, 8, 0, 16, 27)
      BY DEF RootClusters
    <3>2. /\ EnabledCommands("OperationalCredentials") = {0, 2, 4, 6, 7, 9, 10, 11, 12, 13}
          /\ CommandsFrom(16) = {0, 2, 4, 6, 7, 9, 10, 11, 12, 13} /\ CommandsFrom(27) = {1, 3, 5, 8, 14}
      BY <1>1, CommandsAre, EnabledAre, Zenon
    <3>3. CommandsMatch(Cluster("OperationalCredentials", 66, 8, 0, 16, 27))
      BY <1>2, <3>2 DEF CodeDriven
    <3> QED BY <2>1, <2>5, <3>1, <3>3
  <2>6. CASE k = 11
    <3>1. RootClusters[11] = Cluster("GroupKeyManagement", 74, 6, 0, 33, 38)
      BY DEF RootClusters
    <3>2. /\ EnabledCommands("GroupKeyManagement") = {0, 1, 3, 4}
          /\ CommandsFrom(33) = {0, 1, 3, 4} /\ CommandsFrom(38) = {2, 5}
      BY <1>1, CommandsAre, EnabledAre, Zenon
    <3>3. CommandsMatch(Cluster("GroupKeyManagement", 74, 6, 0, 33, 38))
      BY <1>2, <3>2 DEF CodeDriven
    <3> QED BY <2>1, <2>6, <3>1, <3>3
  <2>7. CASE k \in {1, 2, 3, 4, 5, 7}
    <3> DEFINE c == RootClusters[k]
    <3>1. /\ c = Cluster(c.id, c.attributes, c.count, c.size, NoList, NoList)
          /\ c.id \in {"Descriptor", "AccessControl", "BasicInformation",
                       "OtaSoftwareUpdateRequestor", "LocalizationConfiguration", "NetworkCommissioning"}
      BY <2>7 DEF RootClusters, Cluster
    <3>2. EnabledCommands(c.id) = {}
      BY <3>1, EnabledAre
    <3> HIDE DEF c
    <3>3. CommandsMatch(c)
      BY <1>3, <3>1, <3>2
    <3> QED BY <2>1, <3>3 DEF c
  <2> QED BY <2>1, <2>2, <2>3, <2>4, <2>5, <2>6, <2>7
<1>5. CASE e \in 1..3
  <2>1. k \in 1..3 /\ ClustersOf(e)[k] = SensorClusters[3 * (e - 1) + k]
    BY <1>5, SensorRows
  <2>2. CASE k = 1
    <3>1. /\ EnabledCommands("Identify") = {0, 64}
          /\ CommandsFrom(41) = {0, 64} /\ CommandsFrom(44) = {0, 64} /\ CommandsFrom(47) = {0, 64}
      BY CommandsAre, EnabledAre, Zenon
    <3>2. SensorClusters[3 * (e - 1) + k] = Cluster("Identify", 65 + 15 * e, 4, 0, 38 + 3 * e, NoList)
      BY <1>5, <2>2 DEF SensorClusters, Cluster
    <3>3. CommandsFrom(38 + 3 * e) = {0, 64}
      BY <1>5, <3>1
    <3>4. CommandsMatch(Cluster("Identify", 65 + 15 * e, 4, 0, 38 + 3 * e, NoList))
      BY <1>1, <1>2, <1>5, <3>1, <3>3 DEF CodeDriven
    <3> QED BY <2>1, <3>2, <3>4
  <2>3. CASE k \in {2, 3}
    <3> DEFINE c == SensorClusters[3 * (e - 1) + k]
    <3>1. /\ c = Cluster(c.id, c.attributes, c.count, c.size, NoList, NoList)
          /\ c.id \in {"Descriptor", "TemperatureMeasurement", "RelativeHumidityMeasurement"}
      BY <1>5, <2>3 DEF SensorClusters, Cluster
    <3>2. EnabledCommands(c.id) = {}
      BY <3>1, EnabledAre
    <3> HIDE DEF c
    <3>3. CommandsMatch(c)
      BY <1>3, <3>1, <3>2
    <3> QED BY <2>1, <3>3 DEF c
  <2> QED BY <2>1, <2>2, <2>3
<1> QED BY <1>4, <1>5, EndpointsAre

-----------------------------------------------------------------------------
(* Privileges *)

AllPrivileges == {"view", "operate", "manage", "administer"}

LEMMA RanksAre == Rank("view") = 1 /\ Rank("operate") = 2 /\ Rank("manage") = 3 /\ Rank("administer") = 4
<1>1. DOMAIN Privileges = 1..4
  BY DEF Privileges
<1>2. \A i \in 1..4 : Privileges[i] = <<"view", "operate", "manage", "administer">>[i]
  BY DEF Privileges
<1>3. ASSUME NEW n \in 1..4
      PROVE  Rank(Privileges[n]) = n
  <2>1. \A i \in 1..4 : Privileges[i] = Privileges[n] => i = n
    BY <1>2
  <2> QED BY <1>1, <2>1 DEF Rank
<1> QED BY <1>2, <1>3

\* Who holds a privilege may do what asks for it or for less.
LEMMA GrantsFacts ==
  ASSUME NEW p \in AllPrivileges
  PROVE  Grants(p, p) /\ Grants(p, "view") /\ Grants("administer", p)
BY RanksAre DEF Grants, AllPrivileges

LEMMA HasLeast ==
  ASSUME NEW S \in SUBSET Nat, S # {}
  PROVE  Min(S) \in S
<1>1. PICK i \in S : \A j \in S : ~(<<j, i>> \in OpToRel(<, Nat))
  BY NatLessThanWellFounded, WFMin
<1>2. \A j \in S : ~(j < i)
  BY <1>1, Zenon DEF OpToRel
<1>3. \A j \in S : i <= j
  BY <1>2
<1> QED BY <1>3, Zenon DEF Min

\* An access that some entry names asks for what one such entry says, another one
\* for the default.
LEMMA RequiredIs ==
  ASSUME NEW clusters, NEW ids, NEW privileges, NEW c, NEW id, NEW otherwise,
         DOMAIN clusters \in SUBSET Nat,
         NEW i \in DOMAIN clusters, clusters[i] = c, ids[i] = id
  PROVE  \E j \in DOMAIN clusters :
            /\ clusters[j] = c /\ ids[j] = id
            /\ Required(clusters, ids, privileges, c, id, otherwise) = privileges[j]
<1> DEFINE found == { j \in DOMAIN clusters : clusters[j] = c /\ ids[j] = id }
<1>1. found \in SUBSET Nat /\ i \in found
  OBVIOUS
<1>2. Min(found) \in found
  BY <1>1, HasLeast
<1>3. Required(clusters, ids, privileges, c, id, otherwise) = privileges[Min(found)]
  BY <1>1, Zenon DEF Required
<1>4. Min(found) \in DOMAIN clusters /\ clusters[Min(found)] = c /\ ids[Min(found)] = id
  BY <1>2, Zenon
<1> QED BY <1>3, <1>4, Zenon

LEMMA RequiredOtherwise ==
  ASSUME NEW clusters, NEW ids, NEW privileges, NEW c, NEW id, NEW otherwise,
         \A j \in DOMAIN clusters : ~(clusters[j] = c /\ ids[j] = id)
  PROVE  Required(clusters, ids, privileges, c, id, otherwise) = otherwise
<1>1. { j \in DOMAIN clusters : clusters[j] = c /\ ids[j] = id } = {}
  OBVIOUS
<1> QED BY <1>1, Zenon DEF Required

Administrative ==
  {"GeneralCommissioning", "AdministratorCommissioning", "OperationalCredentials", "GroupKeyManagement"}
CommandsInvoked == {"Identify", "GeneralDiagnostics"} \cup Administrative

LEMMA InvokeRows ==
  /\ DOMAIN INVOKE_CLUSTER = 1..22
  /\ \A i \in 1..22 : /\ INVOKE_CLUSTER[i] \in CommandsInvoked
                      /\ INVOKE_COMMAND[i] \in EnabledCommands(INVOKE_CLUSTER[i])
                      /\ INVOKE_PRIVILEGE[i] =
                           IF INVOKE_CLUSTER[i] \in Administrative THEN "administer" ELSE "manage"
<1>1. DOMAIN INVOKE_CLUSTER = 1..22
  BY DEF INVOKE_CLUSTER, Times
<1>2. /\ \A i \in 1..2 : INVOKE_CLUSTER[i] = "Identify"
      /\ \A i \in 3..5 : INVOKE_CLUSTER[i] = "GeneralCommissioning"
      /\ INVOKE_CLUSTER[6] = "GeneralDiagnostics"
      /\ \A i \in 7..8 : INVOKE_CLUSTER[i] = "AdministratorCommissioning"
      /\ \A i \in 9..18 : INVOKE_CLUSTER[i] = "OperationalCredentials"
      /\ \A i \in 19..22 : INVOKE_CLUSTER[i] = "GroupKeyManagement"
  BY DEF INVOKE_CLUSTER, Times
<1>3. /\ \A i \in 1..2 : INVOKE_COMMAND[i] \in {0, 64}
      /\ \A i \in 3..5 : INVOKE_COMMAND[i] \in {0, 2, 4}
      /\ INVOKE_COMMAND[6] = 0
      /\ \A i \in 7..8 : INVOKE_COMMAND[i] \in {0, 2}
      /\ \A i \in 9..18 : INVOKE_COMMAND[i] \in {0, 2, 4, 6, 7, 9, 10, 11, 12, 13}
      /\ \A i \in 19..22 : INVOKE_COMMAND[i] \in {0, 1, 3, 4}
  BY DEF INVOKE_COMMAND
<1>4. /\ \A i \in 1..2 : INVOKE_PRIVILEGE[i] = "manage"
      /\ \A i \in 3..5 : INVOKE_PRIVILEGE[i] = "administer"
      /\ INVOKE_PRIVILEGE[6] = "manage"
      /\ \A i \in 7..22 : INVOKE_PRIVILEGE[i] = "administer"
  BY DEF INVOKE_PRIVILEGE, Times
<1>5. ASSUME NEW i \in 1..22
      PROVE  /\ INVOKE_CLUSTER[i] \in CommandsInvoked
             /\ INVOKE_COMMAND[i] \in EnabledCommands(INVOKE_CLUSTER[i])
             /\ INVOKE_PRIVILEGE[i] =
                  IF INVOKE_CLUSTER[i] \in Administrative THEN "administer" ELSE "manage"
  <2> USE DEF CommandsInvoked, Administrative
  <2>1. CASE i \in 1..2
    BY <1>2, <1>3, <1>4, <2>1, EnabledAre
  <2>2. CASE i \in 3..5
    BY <1>2, <1>3, <1>4, <2>2, EnabledAre
  <2>3. CASE i = 6
    BY <1>2, <1>3, <1>4, <2>3, EnabledAre
  <2>4. CASE i \in 7..8
    BY <1>2, <1>3, <1>4, <2>4, EnabledAre
  <2>5. CASE i \in 9..18
    BY <1>2, <1>3, <1>4, <2>5, EnabledAre
  <2>6. CASE i \in 19..22
    BY <1>2, <1>3, <1>4, <2>6, EnabledAre
  <2> QED BY <2>1, <2>2, <2>3, <2>4, <2>5, <2>6
<1> QED BY <1>1, <1>5

\* What the arrays ask for of a command that they name
LEMMA InvokeRequiresIs ==
  ASSUME NEW i \in 1..22
  PROVE  InvokeRequires(INVOKE_CLUSTER[i], INVOKE_COMMAND[i]) = INVOKE_PRIVILEGE[i]
<1>1. DOMAIN INVOKE_CLUSTER \in SUBSET Nat /\ i \in DOMAIN INVOKE_CLUSTER
  BY InvokeRows
<1>2. PICK j \in DOMAIN INVOKE_CLUSTER :
              /\ INVOKE_CLUSTER[j] = INVOKE_CLUSTER[i] /\ INVOKE_COMMAND[j] = INVOKE_COMMAND[i]
              /\ Required(INVOKE_CLUSTER, INVOKE_COMMAND, INVOKE_PRIVILEGE, INVOKE_CLUSTER[i],
                          INVOKE_COMMAND[i], "operate") = INVOKE_PRIVILEGE[j]
  BY <1>1, RequiredIs
<1>3. INVOKE_PRIVILEGE[j] = INVOKE_PRIVILEGE[i]
  BY <1>2, InvokeRows, Zenon
<1> QED BY <1>2, <1>3, Zenon DEF InvokeRequires

\* Some endpoint has an attribute with this identifier and at least this mask.
Has(c, id, mask) ==
  \E e \in Endpoints : \E k \in DOMAIN ClustersOf(e) :
    /\ ClustersOf(e)[k].id = c
    /\ \E j \in DOMAIN AttributesOf(ClustersOf(e)[k]) :
         LET a == AttributesOf(ClustersOf(e)[k])[j] IN a.id = id /\ mask \subseteq a.mask

LEMMA RootHas ==
  ASSUME NEW k \in 1..11, NEW mask,
         RootClusters[k].count \in Nat, NEW j \in 1..RootClusters[k].count,
         mask \subseteq GENERATED_ATTRIBUTES[RootClusters[k].attributes + j].mask
  PROVE  Has(RootClusters[k].id, GENERATED_ATTRIBUTES[RootClusters[k].attributes + j].id, mask)
<1> DEFINE c == ClustersOf(0)[k]
<1>1. 0 \in Endpoints /\ k \in DOMAIN ClustersOf(0) /\ c = RootClusters[k]
  BY EndpointsAre, RootRows
<1>2. /\ j \in DOMAIN AttributesOf(c)
      /\ AttributesOf(c)[j] = GENERATED_ATTRIBUTES[RootClusters[k].attributes + j]
  BY <1>1 DEF AttributesOf
<1> QED BY <1>1, <1>2, Zenon DEF Has

\* The rows that the arrays for reading and writing name
LEMMA NamedAttributes ==
  LET a(i) == GENERATED_ATTRIBUTES[i]
  IN  /\ a(7).id = 0 /\ "writable" \in a(7).mask
      /\ a(18).id = 5 /\ "writable" \in a(18).mask
      /\ a(19).id = 6 /\ "writable" \in a(19).mask
      /\ a(31).id = 0 /\ "writable" \in a(31).mask
      /\ a(37).id = 0 /\ "writable" \in a(37).mask
      /\ a(41).id = 0 /\ "writable" \in a(41).mask
      /\ a(50).id = 4 /\ "writable" \in a(50).mask
      /\ a(75).id = 0 /\ "writable" \in a(75).mask
      /\ a(48).id = 0 /\ a(49).id = 1 /\ a(51).id = 5 /\ a(52).id = 6 /\ a(53).id = 7
      /\ a(67).id = 0
<1> USE DEF GENERATED_ATTRIBUTES, Globals, DescriptorAttributes, AccessControlAttributes,
            BasicInformationAttributes, OtaAttributes, LocalizationAttributes,
            GeneralCommissioningAttributes, NetworkCommissioningAttributes,
            GeneralDiagnosticsAttributes, AdministratorCommissioningAttributes,
            OperationalCredentialsAttributes, GroupKeyManagementAttributes,
            Endpoint1Attributes, Endpoint2Attributes, Endpoint3Attributes,
            IdentifyAttributes, MeasurementAttributes, Attribute, List, Writable
<1> DEFINE a(i) == GENERATED_ATTRIBUTES[i]
<1>1. a(7).id = 0 /\ "writable" \in a(7).mask
  OBVIOUS
<1>2. a(18).id = 5 /\ "writable" \in a(18).mask /\ a(19).id = 6 /\ "writable" \in a(19).mask
  OBVIOUS
<1>3. a(31).id = 0 /\ "writable" \in a(31).mask
  OBVIOUS
<1>4. a(37).id = 0 /\ "writable" \in a(37).mask
  OBVIOUS
<1>5. a(41).id = 0 /\ "writable" \in a(41).mask
  OBVIOUS
<1>6. a(50).id = 4 /\ "writable" \in a(50).mask
  OBVIOUS
<1>7. a(75).id = 0 /\ "writable" \in a(75).mask
  OBVIOUS
<1>8. a(48).id = 0 /\ a(49).id = 1 /\ a(51).id = 5 /\ a(52).id = 6 /\ a(53).id = 7
  OBVIOUS
<1>9. a(67).id = 0
  OBVIOUS
<1> HIDE DEF GENERATED_ATTRIBUTES, Globals, DescriptorAttributes, AccessControlAttributes,
            BasicInformationAttributes, OtaAttributes, LocalizationAttributes,
            GeneralCommissioningAttributes, NetworkCommissioningAttributes,
            GeneralDiagnosticsAttributes, AdministratorCommissioningAttributes,
            OperationalCredentialsAttributes, GroupKeyManagementAttributes,
            Endpoint1Attributes, Endpoint2Attributes, Endpoint3Attributes,
            IdentifyAttributes, MeasurementAttributes, Attribute, List, Writable
<1> QED BY <1>1, <1>2, <1>3, <1>4, <1>5, <1>6, <1>7, <1>8, <1>9, Zenon

LEMMA RootIds ==
  /\ RootClusters[2].id = "AccessControl" /\ RootClusters[3].id = "BasicInformation"
  /\ RootClusters[4].id = "OtaSoftwareUpdateRequestor"
  /\ RootClusters[5].id = "LocalizationConfiguration"
  /\ RootClusters[6].id = "GeneralCommissioning" /\ RootClusters[7].id = "NetworkCommissioning"
  /\ RootClusters[10].id = "OperationalCredentials" /\ RootClusters[11].id = "GroupKeyManagement"
BY DEF RootClusters, Cluster

\* i is the index, among all attributes, of one of cluster k.
RowOf(k, i) ==
  i - RootClusters[k].attributes \in 1..RootClusters[k].count /\ i \in Nat

LEMMA NamedRows ==
  /\ RowOf(2, 7) /\ RowOf(3, 18) /\ RowOf(3, 19) /\ RowOf(4, 31) /\ RowOf(5, 37) /\ RowOf(6, 41)
  /\ RowOf(7, 48) /\ RowOf(7, 49) /\ RowOf(7, 50) /\ RowOf(7, 51) /\ RowOf(7, 52) /\ RowOf(7, 53)
  /\ RowOf(10, 67) /\ RowOf(11, 75)
BY DEF RowOf, RootClusters, Cluster

LEMMA RootHasRow ==
  ASSUME NEW k \in 1..11, NEW i, NEW mask,
         RowOf(k, i), mask \in SUBSET GENERATED_ATTRIBUTES[i].mask
  PROVE  Has(RootClusters[k].id, GENERATED_ATTRIBUTES[i].id, mask)
<1> DEFINE j == i - RootClusters[k].attributes
           r == RootClusters[k]
<1>1. r.count \in Nat /\ r.attributes \in Nat
  BY DEF RootClusters, Cluster
<1> HIDE DEF r
<1>2. j \in 1..r.count /\ r.attributes + j = i
  BY <1>1 DEF RowOf, r
<1> HIDE DEF j
<1> QED BY <1>1, <1>2, RootHas, Zenon DEF r

LEMMA WriteRows ==
  /\ DOMAIN WRITE_CLUSTER = 1..8
  /\ \A i \in 1..8 : /\ Has(WRITE_CLUSTER[i], WRITE_ATTRIBUTE[i], {"writable"})
                     /\ WRITE_PRIVILEGE[i] \in AllPrivileges
                     /\ WRITE_CLUSTER[i] = "AccessControl" => WRITE_PRIVILEGE[i] = "administer"
<1>1. DOMAIN WRITE_CLUSTER = 1..8
  BY DEF WRITE_CLUSTER
<1>2. /\ Has("AccessControl", 0, {"writable"})
      /\ Has("BasicInformation", 5, {"writable"})
      /\ Has("BasicInformation", 6, {"writable"})
      /\ Has("OtaSoftwareUpdateRequestor", 0, {"writable"})
      /\ Has("LocalizationConfiguration", 0, {"writable"})
      /\ Has("GeneralCommissioning", 0, {"writable"})
      /\ Has("NetworkCommissioning", 4, {"writable"})
      /\ Has("GroupKeyManagement", 0, {"writable"})
  <2>1. ASSUME NEW k \in 1..11, NEW i, RowOf(k, i), "writable" \in GENERATED_ATTRIBUTES[i].mask
        PROVE  Has(RootClusters[k].id, GENERATED_ATTRIBUTES[i].id, {"writable"})
    BY <2>1, RootHasRow
  <2> QED BY <2>1, NamedRows, RootIds, NamedAttributes
<1>3. ASSUME NEW i \in 1..8
      PROVE  /\ Has(WRITE_CLUSTER[i], WRITE_ATTRIBUTE[i], {"writable"})
             /\ WRITE_PRIVILEGE[i] \in AllPrivileges
             /\ WRITE_CLUSTER[i] = "AccessControl" => WRITE_PRIVILEGE[i] = "administer"
  BY <1>2 DEF WRITE_CLUSTER, WRITE_ATTRIBUTE, WRITE_PRIVILEGE, AllPrivileges
<1> QED BY <1>1, <1>3

LEMMA ReadRows ==
  /\ DOMAIN READ_CLUSTER = 1..7
  /\ \A i \in 1..7 : /\ Has(READ_CLUSTER[i], READ_ATTRIBUTE[i], {})
                     /\ READ_PRIVILEGE[i] = "administer"
<1>1. DOMAIN READ_CLUSTER = 1..7
  BY DEF READ_CLUSTER, Times
<1>2. /\ Has("AccessControl", 0, {}) /\ Has("NetworkCommissioning", 0, {})
      /\ Has("NetworkCommissioning", 1, {}) /\ Has("NetworkCommissioning", 5, {})
      /\ Has("NetworkCommissioning", 6, {}) /\ Has("NetworkCommissioning", 7, {})
      /\ Has("OperationalCredentials", 0, {})
  <2>1. ASSUME NEW k \in 1..11, NEW i, RowOf(k, i)
        PROVE  Has(RootClusters[k].id, GENERATED_ATTRIBUTES[i].id, {})
    BY <2>1, RootHasRow
  <2> QED BY <2>1, NamedRows, RootIds, NamedAttributes
<1>3. ASSUME NEW i \in 1..7
      PROVE  /\ Has(READ_CLUSTER[i], READ_ATTRIBUTE[i], {})
             /\ READ_PRIVILEGE[i] = "administer"
  BY <1>2 DEF READ_CLUSTER, READ_ATTRIBUTE, READ_PRIVILEGE, Times
<1> QED BY <1>1, <1>3

\* Whoever may write an attribute may read it.
LEMMA WritersRead ==
  ASSUME NEW i \in 1..8
  PROVE  Grants(WRITE_PRIVILEGE[i], ReadRequires(WRITE_CLUSTER[i], WRITE_ATTRIBUTE[i]))
<1> DEFINE c == WRITE_CLUSTER[i]
           id == WRITE_ATTRIBUTE[i]
<1>1. CASE c = "AccessControl"
  <2>1. WRITE_PRIVILEGE[i] = "administer"
    BY <1>1, WriteRows
  <2>2. ReadRequires(c, id) \in {"administer", "view"}
    <3>1. CASE \A j \in DOMAIN READ_CLUSTER : ~(READ_CLUSTER[j] = c /\ READ_ATTRIBUTE[j] = id)
      BY <3>1, RequiredOtherwise DEF ReadRequires
    <3>2. CASE \E j \in DOMAIN READ_CLUSTER : READ_CLUSTER[j] = c /\ READ_ATTRIBUTE[j] = id
      <4>1. DOMAIN READ_CLUSTER \in SUBSET Nat
        BY ReadRows
      <4>2. PICK j \in DOMAIN READ_CLUSTER : Required(READ_CLUSTER, READ_ATTRIBUTE, READ_PRIVILEGE,
                                                   c, id, "view") = READ_PRIVILEGE[j]
        BY <3>2, <4>1, RequiredIs
      <4> QED BY <4>2, ReadRows DEF ReadRequires
    <3> QED BY <3>1, <3>2
  <2> QED BY <2>1, <2>2, GrantsFacts DEF AllPrivileges
<1>2. CASE c # "AccessControl"
  <2>1. \A j \in DOMAIN READ_CLUSTER : ~(READ_CLUSTER[j] = c /\ READ_ATTRIBUTE[j] = id)
    BY <1>2 DEF READ_CLUSTER, READ_ATTRIBUTE, WRITE_CLUSTER, WRITE_ATTRIBUTE, Times
  <2>2. ReadRequires(c, id) = "view"
    BY <2>1, RequiredOtherwise DEF ReadRequires
  <2> QED BY <2>2, WriteRows, GrantsFacts
<1> QED BY <1>1, <1>2
=============================================================================
