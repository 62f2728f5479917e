---------------------------- MODULE MatterServer ----------------------------
(***************************************************************************)
(* The Matter server of the tag: the SDK, which goes through the generated *)
(* tables, and app_task.cpp, which writes the measurements of endpoints 1, *)
(* 2 and 3 into it.  An attribute with bytes of its own is kept at an      *)
(* offset that the SDK adds up from the tables, so that every write goes   *)
(* through all of them.  SensorApp says when readings are published; here  *)
(* it is any time, and what matters is what a client gets.                 *)
(***************************************************************************)
EXTENDS DataModel, Readings

CONSTANTS
  TiltTemps,     \* degrees Fahrenheit of the advertisements
  Gravities,     \* their gravities
  Above, Below,  \* temperatures of the ambient sensor, in millionths of a degree
  None,          \* no sample; published as null
  Never          \* not published yet

ASSUME ServerAssumption ==
  TiltTemps \subseteq Uint16 /\ Gravities \subseteq Uint16 /\ Above \cup Below \subseteq Nat

Ambients == Above \cup {-x : x \in Below}

kAmbientEndpoint == 1
kInternalEndpoint == 2
kGravityEndpoint == 3
Measured == 1..3

VARIABLES
  phase,       \* "starting", "up", "stopping", "down"
  position,    \* how many clusters have been initialized or shut down
  plugins,     \* the plugins that have been initialized
  inited,      \* the clusters whose emberAf callback has been called
  instances,   \* the code-driven servers that are registered
  memory,      \* attributeData
  ready,       \* s_ready of ambient.c
  sample,      \* the manufacturer data of the last Tilt that was heard, or None
  source       \* history: what each endpoint's value was made from

vars == <<phase, position, plugins, inited, instances, memory, ready, sample, source>>
serverVars == <<phase, position, plugins, inited, instances>>
appVars == <<ready, sample, source>>

Served == UNION { { <<e, ClustersOf(e)[k].id>> : k \in DOMAIN ClustersOf(e) } : e \in Endpoints }

\* Manufacturer data: of the Tilt, too short, and of somebody else
TiltData ==
  { [len |-> 25, tilt |-> TRUE, bytes |-> <<t \div 256, t % 256, g \div 256, g % 256>>]
    : t \in TiltTemps, g \in Gravities }
OtherData ==
  { [len |-> 24, tilt |-> TRUE, bytes |-> <<1, 2, 3, 4>>],
    [len |-> 29, tilt |-> FALSE, bytes |-> <<1, 2, 3, 4>>] }

\* The two marks of `source` are told from each other and from every reading.
ASSUME HistoryAssumption ==
  None # Never /\ {None, Never} \cap Ambients = {} /\ {None, Never} \cap TiltData = {}

TypeOK ==
  /\ phase \in {"starting", "up", "stopping", "down"}
  /\ position \in 0..Len(GENERATED_CLUSTERS)
  /\ plugins \subseteq {PluginsInit[i] : i \in DOMAIN PluginsInit}
  /\ inited \subseteq Served /\ instances \subseteq Served
  /\ ready \in BOOLEAN
  /\ memory \in [0..(ATTRIBUTE_MAX_SIZE - 1) -> 0..255]
  /\ sample \in TiltData \cup {None}
  /\ DOMAIN source = Measured /\ source[kAmbientEndpoint] \in Ambients \cup {None, Never}
  /\ \A e \in Measured \ {kAmbientEndpoint} : source[e] \in TiltData \cup {None, Never}

-----------------------------------------------------------------------------
(* Attribute storage *)

Find(e, c, id) ==
  LET k == CHOOSE i \in DOMAIN ClustersOf(e) : ClustersOf(e)[i].id = c
      j == CHOOSE i \in DOMAIN AttributesOf(ClustersOf(e)[k]) :
             AttributesOf(ClustersOf(e)[k])[i].id = id
  IN  Offset(e, k, j)

\* The SDK copies as many bytes as the attribute has.
Written(old, at, bytes) ==
  [o \in DOMAIN old |-> IF o \in at..(at + Len(bytes) - 1) THEN bytes[o - at + 1] ELSE old[o]]

\* emAfLoadAttributeDefaults: no default stands for zeros, so a measurement is
\* not null before it is first reported.
DefaultByte(o) ==
  LET here == { s \in StoredAttributes : s.at = o }
  IN  IF here = {} THEN 0 ELSE (CHOOSE s \in here : TRUE).attribute.value % 256
Defaults == [o \in 0..(ATTRIBUTE_MAX_SIZE - 1) |-> DefaultByte(o)]

MeasurementCluster(e) == IF e = kGravityEndpoint THEN "RelativeHumidityMeasurement" ELSE "TemperatureMeasurement"
Signed(e) == e # kGravityEndpoint
Locations == [e \in Measured |-> Find(e, MeasurementCluster(e), MeasuredValue)]

Put(old, e, bits) == Written(old, Locations[e], Bytes(bits))
Set(old, e, x) == IF Representable(Signed(e), x) THEN Put(old, e, ToUint16(x)) ELSE old
SetNull(old, e) == Put(old, e, NullBits(Signed(e)))

Init ==
  /\ phase = "starting" /\ position = 0
  /\ plugins = {} /\ inited = {} /\ instances = {}
  /\ memory = Defaults
  /\ ready \in BOOLEAN       \* ambient_init
  /\ sample = None /\ source = [e \in Measured |-> Never]

-----------------------------------------------------------------------------
(* Start and end of the server *)

InitializePlugins ==
  /\ phase = "starting" /\ position = 0
  /\ plugins' = {PluginsInit[i] : i \in DOMAIN PluginsInit}
  /\ UNCHANGED <<phase, position, inited, instances, memory, appVars>>

\* A server's pool has as many instances as gen_config.h counts endpoints.
Registers(c) ==
  c \in InitCallback /\ Cardinality({ s \in instances : s[2] = c }) < ServerEndpointCount(c)

\* The clusters in the order of the table, which goes from endpoint to endpoint
ClusterAt(n) ==
  LET counts == [d \in 1..FIXED_ENDPOINT_COUNT |-> EndpointType(d - 1).count]
      before == SumsOf(counts, FIXED_ENDPOINT_COUNT)
      e == CHOOSE d \in Endpoints : n \in before[d]..(before[d + 1] - 1)
  IN  <<e, ClustersOf(e)[n - before[e] + 1].id>>
Here == ClusterAt(position)

InitializeCluster ==
  /\ phase = "starting" /\ plugins # {} /\ position < Len(GENERATED_CLUSTERS)
  /\ position' = position + 1
  /\ inited' = IF Here[2] \in EmberInitCallback THEN inited \cup {Here} ELSE inited
  /\ instances' = IF Registers(Here[2]) THEN instances \cup {Here} ELSE instances
  /\ UNCHANGED <<phase, plugins, memory, appVars>>

StartDone ==
  /\ phase = "starting" /\ position = Len(GENERATED_CLUSTERS)
  /\ phase' = "up" /\ position' = 0
  /\ UNCHANGED <<plugins, inited, instances, memory, appVars>>

Stop ==
  /\ phase = "up"
  /\ phase' = "stopping"
  /\ UNCHANGED <<position, plugins, inited, instances, memory, appVars>>

ShutDownCluster ==
  /\ phase = "stopping" /\ position < Len(GENERATED_CLUSTERS)
  /\ position' = position + 1
  /\ instances' = IF Here[2] \in ShutdownCallback THEN instances \ {Here} ELSE instances
  /\ UNCHANGED <<phase, plugins, inited, memory, appVars>>

StopDone ==
  /\ phase = "stopping" /\ position = Len(GENERATED_CLUSTERS)
  /\ phase' = "down"
  /\ UNCHANGED <<position, plugins, inited, instances, memory, appVars>>

-----------------------------------------------------------------------------
(* The application.  Its reports, the server's start and its end are all     *)
(* work of the Matter thread, so reports come while the server is up.       *)

\* ad_parse_cb decodes one element of an advertisement; others change nothing.
\* The observer is not enabled before the server is up.
Advert(mfg) ==
  /\ phase # "starting" /\ IsTilt(mfg)
  /\ sample' = mfg
  /\ UNCHANGED <<serverVars, memory, ready, source>>

\* ReportTiltWork; `fresh' is what observer_get_tilt returns, and what Set
\* returns is not looked at: a gravity that it refuses leaves EP3 as it was.
TiltReported(fresh) ==
  IF fresh
  THEN Set(Set(memory, kInternalEndpoint, TiltSample(sample).temp),
           kGravityEndpoint, TiltSample(sample).gravity)
  ELSE SetNull(SetNull(memory, kInternalEndpoint), kGravityEndpoint)

ReportTilt(fresh) ==
  /\ phase = "up" /\ (fresh => sample # None)
  /\ memory' = TiltReported(fresh)
  /\ source' = [source EXCEPT ![kInternalEndpoint] = IF fresh THEN sample ELSE None,
                              ![kGravityEndpoint] = IF ~fresh THEN None
                                                    ELSE IF Representable(FALSE, TiltSample(sample).gravity)
                                                    THEN sample ELSE source[kGravityEndpoint]]
  /\ UNCHANGED <<serverVars, ready, sample>>

\* The first half of ReportWork; None is a read that failed, as every read does
\* of a sensor that was not ready when the tag started.
ReportAmbient(micro) ==
  /\ phase = "up" /\ (micro # None => ready)
  /\ memory' = IF micro = None THEN SetNull(memory, kAmbientEndpoint)
               ELSE Set(memory, kAmbientEndpoint, AmbientCenti(micro))
  /\ source' = [source EXCEPT ![kAmbientEndpoint] = micro]
  /\ UNCHANGED <<serverVars, ready, sample>>

-----------------------------------------------------------------------------
(* Clients *)

\* A write goes to the code-driven server; without one to the SDK's storage, or
\* to the code that keeps the attribute elsewhere.
Accepts(e, cluster, a, p) ==
  "writable" \in a.mask /\ Grants(p, WriteRequires(cluster.id, a.id))
StoredByWrite(e, cluster, a) == <<e, cluster.id>> \notin instances /\ Stored(a) > 0

ClientWrite(e, k, j, p) ==
  LET cluster == ClustersOf(e)[k]
      a == AttributesOf(cluster)[j]
  IN  /\ phase = "up" /\ Accepts(e, cluster, a, p)
      /\ memory' = IF StoredByWrite(e, cluster, a)
                   THEN Written(memory, Offset(e, k, j), Times(a.size, 255)) ELSE memory
      /\ UNCHANGED <<serverVars, appVars>>

\* The SDK's own NetworkCommissioning, which the generated switches do not register
\* and whose commands the tables do not list: it brings those for Thread.
OwnInstances == IF phase = "up" THEN {<<0, "NetworkCommissioning">>} ELSE {}
ThreadCommands == {0, 3, 4, 6, 8}

Handles(c) == IF c = "NetworkCommissioning" THEN ThreadCommands ELSE EnabledCommands(c)
CommandRequires(c, i) == IF c = "NetworkCommissioning" THEN "administer" ELSE InvokeRequires(c, i)

\* DispatchSingleClusterCommand, which is asked when there is no server
DispatchSingleClusterCommand(e, c) == "UnsupportedCluster"

\* What a client with privilege p is answered that invokes command i
Answer(e, c, i, p) ==
  IF ~Grants(p, CommandRequires(c, i)) THEN "UnsupportedAccess"
  ELSE IF <<e, c>> \notin instances \cup OwnInstances THEN DispatchSingleClusterCommand(e, c)
  ELSE IF i \in Handles(c) THEN "Handled" ELSE "UnsupportedCommand"

\* What ChipTool._read makes of MeasuredValue
HostReading(e) ==
  HostReads(Signed(e), Bits(<<memory[Locations[e]], memory[Locations[e] + 1]>>))

-----------------------------------------------------------------------------

\* Power, watchdog or factory reset: all of this is in RAM.
Reboot ==
  /\ phase' = "starting" /\ position' = 0
  /\ plugins' = {} /\ inited' = {} /\ instances' = {}
  /\ memory' = Defaults
  /\ ready' \in BOOLEAN
  /\ sample' = None /\ source' = [e \in Measured |-> Never]

Serve ==
  InitializePlugins \/ InitializeCluster \/ StartDone \/ Stop \/ ShutDownCluster \/ StopDone

Clients ==
  \E e \in Endpoints : \E k \in DOMAIN ClustersOf(e) :
    \E j \in DOMAIN AttributesOf(ClustersOf(e)[k]), i \in DOMAIN Privileges :
      ClientWrite(e, k, j, Privileges[i])

Next ==
  \/ Serve
  \/ \E mfg \in TiltData \cup OtherData : Advert(mfg)
  \/ \E fresh \in BOOLEAN : ReportTilt(fresh)
  \/ \E micro \in Ambients \cup {None} : ReportAmbient(micro)
  \/ Clients
  \/ Reboot

Spec == Init /\ [][Next]_vars

-----------------------------------------------------------------------------
(* Properties *)

\* app_task.cpp:47: what a client reads on endpoints 1 to 3 is what was measured,
\* to a hundredth of a degree, or null (the host's read fails) when there was
\* nothing to publish.  Of a sample whose gravity has the bits of null only the
\* temperature is published: the gravity a client reads is still the one before,
\* from an earlier sample, null or, before the first report, the default, zero.
ReadingsTrue ==
  \A e \in Measured :
    LET x == HostReading(e)
        s == source[e]
    IN  CASE s = Never -> x = 0
          [] s = None -> x = Unread
          [] s \notin {None, Never} /\ e = kAmbientEndpoint -> AmbientAccurate(x, s)
          [] s \notin {None, Never} /\ e = kInternalEndpoint -> TempAccurate(x, TiltTempF(s))
          [] s \notin {None, Never} /\ e = kGravityEndpoint -> x = TiltGravity(s)

\* Reports and clients write nothing but what they name: every other attribute
\* in the SDK's storage still has its default, whatever the offsets add up to.
OthersKeepDefaults ==
  \A s \in StoredAttributes :
    ~(s.endpoint \in Measured /\ s.cluster = MeasurementCluster(s.endpoint)
        /\ s.attribute.id = MeasuredValue) =>
      \A o \in s.at..(s.at + s.attribute.size - 1) : memory[o] = Defaults[o]

\* A server that is up has initialized all it serves: the plugin, the emberAf
\* callback, and a code-driven instance wherever there are commands.
ServersReady ==
  phase = "up" =>
    \A e \in Endpoints : \A k \in DOMAIN ClustersOf(e) :
      LET c == ClustersOf(e)[k]
      IN  /\ c.id \in plugins /\ <<e, c.id>> \in inited
          /\ (c.accepted # NoList \/ c.id = "Descriptor") => <<e, c.id>> \in instances

\* The commands that the tables list as accepted are the ones that are handled, and
\* none of them is a response.  They list none for the SDK's own instance, and the
\* commands it brings are handled: commission-sensor.sh:17 needs them.
CommandsServed ==
  phase = "up" =>
    \A e \in Endpoints : \A k \in DOMAIN ClustersOf(e) :
      LET c == ClustersOf(e)[k]
          handled == { i \in 0..64 : Answer(e, c.id, i, "administer") = "Handled" }
      IN  /\ IF <<e, c.id>> \in OwnInstances
             THEN c.accepted = NoList /\ handled = ThreadCommands
             ELSE handled = CommandsFrom(c.accepted)
          /\ CommandsFrom(c.accepted) \cap CommandsFrom(c.generated) = {}

\* The privilege arrays are parallel: taken together their entries name only what
\* the tag has, whoever may write an attribute may read it, and whoever holds the
\* privilege a command asks for has it handled once the server is up.
PrivilegesAligned ==
  LET has(c, id, mask) ==
        \E e \in Endpoints : \E k \in DOMAIN ClustersOf(e) :
          /\ ClustersOf(e)[k].id = c
          /\ \E j \in DOMAIN AttributesOf(ClustersOf(e)[k]) :
               LET a == AttributesOf(ClustersOf(e)[k])[j] IN a.id = id /\ mask \subseteq a.mask
  IN  phase = "up" =>
        /\ \A i \in DOMAIN READ_CLUSTER :
             has(READ_CLUSTER[i], READ_ATTRIBUTE[i], {})
        /\ \A i \in DOMAIN WRITE_CLUSTER :
             /\ has(WRITE_CLUSTER[i], WRITE_ATTRIBUTE[i], {"writable"})
             /\ Grants(WRITE_PRIVILEGE[i], ReadRequires(WRITE_CLUSTER[i], WRITE_ATTRIBUTE[i]))
        /\ \A i \in DOMAIN INVOKE_CLUSTER : \E e \in Endpoints :
             Answer(e, INVOKE_CLUSTER[i], INVOKE_COMMAND[i], INVOKE_PRIVILEGE[i]) = "Handled"

\* Shutting down unregisters every instance that was registered.
ShutdownReleases == phase = "down" => instances = {}
=============================================================================
