------------------------------ MODULE Plugins -------------------------------
(* nssct.plugins over the collector: what each plugin asks a device for, in  *)
(* which order, and what it reports.  A step of a plugin runs from one       *)
(* answer to the next question.  Answers arrive as QueryService delivers     *)
(* them: each plugin's in the order it awaits them, those of different       *)
(* plugins in any order, and any of them may be an error.  Walks deliver the *)
(* rows of a table in the order of their oids (Controller's                  *)
(* TablesAreComplete).                                                       *)
EXTENDS Report, Oids

CONSTANTS Cases,       \* what is checked: [plugin, mib, octet, engine]
          Followed     \* bound: of the plugins that plugins start, those that run

FanPlugins   == {"brocade_fan_table_plugin", "brocade_stack_fan_table_plugin"}
PsuPlugins   == {"brocade_psu_table_plugin", "brocade_stack_psu_table_plugin"}
CiscoPlugins == {"cisco_fan_table_plugin", "cisco_psu_table_plugin"}
LoadPlugins  == {"brocade_agent_temperature_plugin", "brocade_cpu_usage_plugin",
                 "cisco_cpu_usage_plugin"}

(* The table a plugin walks first.                                           *)
Table == [brocade_fan_table_plugin         |-> "snChasFanOperStatus",
          brocade_stack_fan_table_plugin   |-> "snChasFan2OperStatus",
          brocade_psu_table_plugin         |-> "snChasPwrSupplyOperStatus",
          brocade_stack_psu_table_plugin   |-> "snChasPwrSupply2OperStatus",
          brocade_agent_temperature_plugin |-> "snAgentTempValue",
          brocade_unit_temperature_plugin  |-> "snChasUnitActualTemp",
          brocade_cpu_usage_plugin         |-> "snAgentCpuUtilValue",
          brocade_stacking_topology_plugin |-> "snStackingConfigUnitPriority",
          brocade_stacking_unit_state      |-> "snStackingConfigUnitState",
          brocade_stacking_version_plugin  |-> "snStackingOperUnitImgVer",
          cisco_fan_table_plugin           |-> "ciscoEnvMonFanState",
          cisco_psu_table_plugin           |-> "ciscoEnvMonSupplyState",
          cisco_mem_usage_plugin           |-> "ciscoMemoryPoolName",
          cisco_cpu_usage_plugin           |-> "ciscoCpmCPUTotal5minRev",
          hp_sensors_plugin                |-> "hpicfSensorEntry",
          hp_mem_usage_plugin              |-> "hpGlobalMemAllocBytes"]

(* The object a plugin asks for first.                                       *)
Object == [detect                       |-> "sysObjectID",
           brocade_temperature_plugin   |-> "snChasActualTemperature",
           brocade_mem_usage_plugin     |-> "snAgGblDynMemTotal",
           brocade_uptime_plugin        |-> "sysDescr",
           brocade_version_plugin       |-> "snAgImgVer",
           brocade_stack_plugin         |-> "snStackingGlobalConfigSt",
           brocade_dhcp_snooping_plugin |-> "snSWACLPerPortPerVlanMode"]

(* The column a table plugin gets for a row.                                 *)
Detail == [brocade_psu_table_plugin        |-> "snChasPwrSupplyDescription",
           brocade_stack_psu_table_plugin  |-> "snChasPwrSupply2Description",
           brocade_unit_temperature_plugin |-> "snChasUnitWarningTem",
           cisco_fan_table_plugin          |-> "ciscoEnvMonFanStatusDescr",
           cisco_psu_table_plugin          |-> "ciscoEnvMonSupplyStatusDescr",
           cisco_mem_usage_plugin          |-> "ciscoMemoryPoolUsed",
           hp_mem_usage_plugin             |-> "hpGlobalMemTotalBytes"]

StackPlugins == {"brocade_stacking_topology_plugin", "brocade_stacking_version_plugin",
                 "brocade_stacking_unit_state"}

AnyPlugin  == "any"     \* reports whatever it likes
AllPlugins == DOMAIN Table \cup DOMAIN Object \cup {AnyPlugin}

ASSUME PluginsAssumption ==
    \A c \in Cases : /\ c.octet \in 0 .. 255
                     /\ c.engine \in {"simple", "bulk", "cached", "mock"}
                     /\ \A o \in DOMAIN c.mib : DOMAIN c.mib[o] \subseteq Oid \ {<< >>}
                     /\ \A o \in DOMAIN c.mib : \A i \in DOMAIN c.mib[o] :
                           c.mib[o][i] \notin {None, Tilde, Empty, Invalid}
                     /\ c.plugin \in AllPlugins

VARIABLES device,      \* the device and how it is asked: a member of Cases
          task,        \* for each plugin started, where it is
          about        \* for each alert, the plugin and the row it is about

pluginVars == <<vars, device, task, about>>

Column(o) == IF o \in DOMAIN device.mib THEN device.mib[o] ELSE << >>

(* get_third_octet: BulkEngine is neither of the classes it looks for.       *)
ThirdOctet == IF device.engine \in {"simple", "cached"} THEN device.octet ELSE -1

(* A plugin walks a table, after row, or awaits an object, or has ended.     *)
Idle == [at |-> "started", table |-> "", row |-> << >>, obj |-> "", tail |-> << >>, mem |-> << >>]
Scalar == << 0 >>

Walks(t, table)    == [t EXCEPT !.at = "walk", !.table = table, !.row = << >>]
Gets(t, obj, tail) == [t EXCEPT !.at = "get", !.obj = obj, !.tail = tail]
GoesOn(t)          == [t EXCEPT !.at = "walk"]
Remembers(t, m)    == [t EXCEPT !.mem = m]
Done               == [Idle EXCEPT !.at = "done"]

Fresh(p) == IF p = "hp_sensors_plugin" THEN Remembers(Walks(Idle, Table[p]), << None, None >>)
            ELSE IF p \in DOMAIN Table THEN Walks(Idle, Table[p])
            ELSE IF p \in DOMAIN Object THEN Gets(Idle, Object[p], Scalar)
            ELSE [Idle EXCEPT !.at = AnyPlugin]

Becomes(p, t) == task' = [task EXCEPT ![p] = t]

(* start_plugin, for each of ps                                              *)
Starts(p, t, ps) ==
    task' = [q \in DOMAIN task \cup ps |->
                IF q \in ps THEN IF q \in Followed THEN Fresh(q) ELSE Idle
                ELSE IF q = p THEN t ELSE task[q]]

(* A walk over a VLAN's ports is one over the oids with the VLAN's number.   *)
Rows(table) == IF table = "snVLanByPortMemberTagMode"
               THEN {i \in DOMAIN Column(table) : StartsWith(i, << ThirdOctet >>)}
               ELSE DOMAIN Column(table)

Left(p) == {i \in Rows(task[p].table) : task[p].row \prec i}

RowsEnd(p) == task[p].at = "walk" /\ Left(p) = {}

(* The walk delivers row i, with value v.                                    *)
RowIs(p, i) == /\ task[p].at = "walk"
               /\ \A j \in Left(p) : i \preceq j
Val(p, i)   == Column(task[p].table)[i]
At(p, i)    == [task[p] EXCEPT !.row = i]

(* The engine delivers the object obj, with value Got(p).                    *)
There(p)        == task[p].tail \in DOMAIN Column(task[p].obj)
Awaits(p, obj)  == task[p].at = "get" /\ task[p].obj = obj
Gives(p, obj)   == Awaits(p, obj) /\ There(p)
Got(p)          == Column(task[p].obj)[task[p].tail]

Quiet == UNCHANGED <<vars, about>>

\* add_alert for alerts of the states sts, and add_metric
Alerts(p, i, sts) == /\ AddAlerts(sts)
                     /\ about' = about \o [k \in DOMAIN sts |-> <<p, i>>]
Metric(p, i, m)   == /\ AddMetric(m)
                     /\ about' = Append(about, <<p, i>>)

(* PerfRange.fromany: no limits, or a number as high limit above 0.          *)
NoRange  == [low |-> None, high |-> None, invert |-> FALSE]
UpTo(h)  == [low |-> 0, high |-> h, invert |-> FALSE]
Measured(v, warn, crit) == [value |-> v, warn |-> warn, crit |-> crit]

PluginInit ==
    /\ Init
    /\ device \in Cases
    /\ task = [p \in {device.plugin} |-> Fresh(p)]
    /\ about = << >>
-----------------------------------------------------------------------------
(* Table plugins.                                                            *)

FanState(v) == IF v = 2 THEN "OK" ELSE "CRITICAL"

FanRow(p, i) == /\ p \in FanPlugins
                /\ Alerts(p, i, << FanState(Val(p, i)) >>)
                /\ Becomes(p, At(p, i))

PsuState(v) == IF v \in {1, 2} THEN "OK" ELSE "CRITICAL"

\* A description is asked for by a row's last number, in a stack by all of them.
PsuIndex(p, i) == IF p = "brocade_psu_table_plugin" THEN << Last(i) >> ELSE i

(* A failed supply is looked at again: it may not be there.                  *)
PsuRow(p, i) ==
    /\ p \in PsuPlugins
    /\ IF Val(p, i) = 3
       THEN Becomes(p, Gets(At(p, i), Detail[p], PsuIndex(p, i))) /\ Quiet
       ELSE Becomes(p, At(p, i)) /\ Alerts(p, i, << PsuState(Val(p, i)) >>)

\* Mutation of PsuDescribed: the alert is only made, not added, for an empty slot.
PsuDescribedUntold(p) ==
    /\ p \in PsuPlugins /\ Gives(p, Detail[p])
    /\ IF Got(p) = "not present" THEN Quiet ELSE Alerts(p, task[p].row, << "CRITICAL" >>)
    /\ Becomes(p, GoesOn(task[p]))

\* Mutation of PsuDescribed: an empty slot is a failed supply.
PsuDescribedFailed(p) ==
    /\ p \in PsuPlugins /\ Gives(p, Detail[p])
    /\ Alerts(p, task[p].row, << "CRITICAL" >>)
    /\ Becomes(p, GoesOn(task[p]))

PsuDescribed(p) ==
    /\ p \in PsuPlugins /\ Gives(p, Detail[p])
    /\ Alerts(p, task[p].row, << IF Got(p) = "not present" THEN "OK" ELSE "CRITICAL" >>)
    /\ Becomes(p, GoesOn(task[p]))

\* Mutation of LoadRow: a skipped row is looked at again.
LoadRowStuck(p, i) ==
    /\ p \in LoadPlugins
    /\ IF p = "brocade_cpu_usage_plugin" /\ Last(i) # 300 THEN Quiet /\ UNCHANGED task
       ELSE Metric(p, i, Measured(Val(p, i), NoRange, NoRange)) /\ Becomes(p, At(p, i))

(* 300: the interval of five minutes                                         *)
LoadRow(p, i) ==
    /\ p \in LoadPlugins
    /\ IF p = "brocade_cpu_usage_plugin" /\ Last(i) # 300 THEN Quiet
       ELSE Metric(p, i, Measured(Val(p, i), NoRange, NoRange))
    /\ Becomes(p, At(p, i))

(* cisco_states, by number                                                   *)
cisco_states   == << "OK", "WARNING", "CRITICAL", "CRITICAL", "UNKNOWN", "CRITICAL" >>
cisco_state(n) == IF n \in DOMAIN cisco_states THEN cisco_states[n] ELSE "CRITICAL"

(* The row's value is kept while its name is asked for.                      *)
CiscoRow(p, i) == /\ p \in CiscoPlugins
                  /\ Becomes(p, Gets(Remembers(At(p, i), << Val(p, i) >>),
                                     Detail[p], << Last(i) >>))
                  /\ Quiet

CiscoNamed(p) == /\ p \in CiscoPlugins /\ Gives(p, Detail[p])
                 /\ Alerts(p, task[p].row, << cisco_state(task[p].mem[1]) >>)
                 /\ Becomes(p, GoesOn(task[p]))

(* Memory pools: cisco asks for the used and the free bytes of each, hp for  *)
(* the total.  minval and maxval play no part in a metric's state.           *)
MemRow(p, i) == /\ p \in {"cisco_mem_usage_plugin", "hp_mem_usage_plugin"}
                /\ Becomes(p, Gets(Remembers(At(p, i), << Val(p, i) >>),
                                   Detail[p], << Last(i) >>))
                /\ Quiet

CiscoMemUsed(p) ==
    /\ p = "cisco_mem_usage_plugin" /\ Gives(p, "ciscoMemoryPoolUsed")
    /\ Becomes(p, Gets(Remembers(task[p], << Got(p) >>), "ciscoMemoryPoolFree", task[p].tail))
    /\ Quiet

MemGiven(p) ==
    /\ \/ p = "cisco_mem_usage_plugin" /\ Gives(p, "ciscoMemoryPoolFree")
       \/ p = "hp_mem_usage_plugin" /\ Gives(p, "hpGlobalMemTotalBytes")
    /\ Metric(p, task[p].row, Measured(task[p].mem[1], NoRange, NoRange))
    /\ Becomes(p, GoesOn(task[p]))

(* hp_sensors: the plugin keeps number and type until it meets a status.  A  *)
(* type that is icfSensors itself has no last number to compare: the         *)
(* IndexError (hp.py:40) is one of Fails.                                    *)
hp_states   == << "UNKNOWN", "CRITICAL", "WARNING", "OK", "UNKNOWN" >>
hp_state(n) == IF n \in DOMAIN hp_states THEN hp_states[n] ELSE "CRITICAL"

icfSensorType == 1 .. 3
NoSensor      == 0      \* an object id that is not below icfSensors

SensorRow(p, i) ==
    LET v == Val(p, i)
        m == task[p].mem
        Keep(n) == Becomes(p, Remembers(At(p, i), n)) /\ Quiet
    IN  /\ p = "hp_sensors_plugin"
        /\ \/ Head(i) = 1 /\ Keep(<< v, m[2] >>)
           \/ Head(i) = 2 /\ Keep(<< m[1], IF v = NoSensor THEN m[2]
                                           ELSE IF v \in icfSensorType THEN v ELSE None >>)
           \/ /\ Head(i) = 4
              /\ Becomes(p, Remembers(At(p, i), << None, None >>))
              /\ IF None \in Range(m) THEN Quiet ELSE Alerts(p, i, << hp_state(v) >>)
           \/ Head(i) \notin {1, 2, 4} /\ Keep(m)

TableEnds(p) ==
    /\ p \in FanPlugins \cup PsuPlugins \cup LoadPlugins \cup CiscoPlugins
             \cup {"cisco_mem_usage_plugin", "hp_mem_usage_plugin", "hp_sensors_plugin",
                   "brocade_unit_temperature_plugin", "brocade_stacking_unit_state"}
    /\ Becomes(p, Done) /\ Quiet
-----------------------------------------------------------------------------
(* Temperatures, of the chassis and of units.                                *)
ChassisActual(p) ==
    /\ p = "brocade_temperature_plugin" /\ Gives(p, "snChasActualTemperature")
    /\ Becomes(p, Gets(Remembers(task[p], << Got(p) >>), "snChasWarningTemperature", Scalar))
    /\ Quiet

UnitActual(p, i) ==
    /\ p = "brocade_unit_temperature_plugin"
    /\ Becomes(p, Gets(Remembers(At(p, i), << Val(p, i) >>), Detail[p], << Last(i) >>))
    /\ Quiet

Shutdown == [brocade_temperature_plugin      |-> "snChasShutdownTemperature",
             brocade_unit_temperature_plugin |-> "snChasUnitShutdownTemperature"]

(* Below the warning temperature the plugin reports and returns.             *)
WarningTemperature(p) ==
    LET act == task[p].mem[1]
    IN  /\ \/ p = "brocade_temperature_plugin" /\ Gives(p, "snChasWarningTemperature")
           \/ p = "brocade_unit_temperature_plugin" /\ Gives(p, "snChasUnitWarningTem")
        /\ IF act < Got(p)
           THEN /\ Metric(p, task[p].row, Measured(act, UpTo(Got(p)), NoRange))
                /\ Becomes(p, Done)
           ELSE /\ Becomes(p, Gets(Remembers(task[p], << act, Got(p) >>),
                                   Shutdown[p], task[p].tail))
                /\ Quiet

\* Mutation of ShutdownTemperature: the shutdown temperature is taken for the warning.
ShutdownTemperatureOnly(p) ==
    /\ p \in DOMAIN Shutdown /\ Gives(p, Shutdown[p])
    /\ Metric(p, task[p].row, Measured(task[p].mem[1], UpTo(Got(p)), NoRange))
    /\ Becomes(p, IF p = "brocade_temperature_plugin" THEN Done ELSE GoesOn(task[p]))

ShutdownTemperature(p) ==
    /\ p \in DOMAIN Shutdown /\ Gives(p, Shutdown[p])
    /\ Metric(p, task[p].row, Measured(task[p].mem[1], UpTo(task[p].mem[2]), UpTo(Got(p))))
    /\ Becomes(p, IF p = "brocade_temperature_plugin" THEN Done ELSE GoesOn(task[p]))
-----------------------------------------------------------------------------
(* Memory, uptime and version of a brocade switch.                           *)
DynMemTotal(p) ==
    /\ p = "brocade_mem_usage_plugin" /\ Gives(p, "snAgGblDynMemTotal")
    /\ Becomes(p, Gets(Remembers(task[p], << Got(p) >>), "snAgGblDynMemFree", Scalar))
    /\ Quiet

DynMemFree(p) ==
    /\ p = "brocade_mem_usage_plugin" /\ Gives(p, "snAgGblDynMemFree")
    /\ Metric(p, << >>, Measured(task[p].mem[1] - Got(p), NoRange, NoRange))
    /\ Becomes(p, Done)

(* Versions are numbers in the order of LooseVersion; sysDescr is the type   *)
(* that SWITCH_TYPE_REGEX finds in it.                                       *)
MIN_VERSIONS           == [FWS |-> 5, ICX6430 |-> 8]
UPTIME_FIX_MIN_VERSION == 9
UptimeTypes            == {"ICX6430", "ICX7"}
Day == 1

UptimeLimits(descr, version) ==
    IF descr \in UptimeTypes /\ version < UPTIME_FIX_MIN_VERSION
    THEN << UpTo(1100 * Day), UpTo(1200 * Day) >> ELSE << NoRange, NoRange >>

UptimeAsks(p) ==
    /\ p = "brocade_uptime_plugin"
    /\ \/ /\ Gives(p, "sysDescr")
          /\ Becomes(p, Gets(Remembers(task[p], << Got(p) >>), "snAgImgVer", Scalar))
       \/ /\ Gives(p, "snAgImgVer")
          /\ Becomes(p, Gets(Remembers(task[p], Append(task[p].mem, Got(p))),
                             "snmpEngineTime", Scalar))
    /\ Quiet

UptimeGiven(p) ==
    LET limits == UptimeLimits(task[p].mem[1], task[p].mem[2])
    IN  /\ p = "brocade_uptime_plugin" /\ Gives(p, "snmpEngineTime")
        /\ Metric(p, << >>, Measured(Got(p), limits[1], limits[2]))
        /\ Becomes(p, Done)

(* The second version is asked for with the first one's oid.                 *)
VersionAsks(p) ==
    /\ p = "brocade_version_plugin" /\ Gives(p, "snAgImgVer")
    /\ Becomes(p, Gets(Remembers(task[p], Append(task[p].mem, Got(p))),
                       IF task[p].mem = << >> THEN "snAgImgVer" ELSE "sysDescr", Scalar))
    /\ Quiet

\* Mutation of VersionAlerts: an image as old as required is too old.
VersionAlertsStrict(img, flash, descr) ==
    (IF img # flash THEN << "WARNING" >> ELSE << >>)
    \o (IF descr \in DOMAIN MIN_VERSIONS /\ img <= MIN_VERSIONS[descr]
        THEN << "WARNING" >> ELSE << >>)

VersionAlerts(img, flash, descr) ==
    (IF img # flash THEN << "WARNING" >> ELSE << >>)
    \o (IF descr \in DOMAIN MIN_VERSIONS /\ img < MIN_VERSIONS[descr]
        THEN << "WARNING" >> ELSE << >>)

VersionGiven(p) ==
    LET old == VersionAlerts(task[p].mem[1], task[p].mem[2], Got(p))
    IN  /\ p = "brocade_version_plugin" /\ Gives(p, "sysDescr")
        /\ Alerts(p, << >>, IF old = << >> THEN << "OK" >> ELSE old)
        /\ Becomes(p, Done)
-----------------------------------------------------------------------------
(* Stacks.  mem has the units counted so far.                                *)
UnitCounted(p, i) ==
    /\ p \in {"brocade_stack_plugin", "brocade_stacking_topology_plugin"}
    /\ Becomes(p, Remembers(At(p, i), Append(task[p].mem, i)))
    /\ Quiet

StackConfigured(p) ==
    /\ p = "brocade_stack_plugin" /\ Awaits(p, "snStackingGlobalConfigSt")
    /\ IF There(p) /\ Got(p) = 1
       THEN /\ Starts(p, Walks(task[p], "snStackingConfigUnitPriority"), StackPlugins)
            /\ Quiet
       ELSE Becomes(p, Done) /\ Alerts(p, << >>, << "OK" >>)

StackCounted(p) ==
    /\ p = "brocade_stack_plugin"
    /\ Alerts(p, << >>, << IF Len(task[p].mem) <= 1 THEN "CRITICAL" ELSE "OK" >>)
    /\ Becomes(p, Done)

TopologyCounted(p) ==
    /\ p = "brocade_stacking_topology_plugin"
    /\ Becomes(p, Gets(task[p], "snStackingGlobalTopology", Scalar))
    /\ Quiet

TopologyState(v, count) == IF v = 3 \/ (v = 2 /\ count <= 2) THEN "OK"
                           ELSE IF v = 2 THEN "WARNING" ELSE "CRITICAL"

TopologyGiven(p) ==
    /\ p = "brocade_stacking_topology_plugin" /\ Gives(p, "snStackingGlobalTopology")
    /\ Alerts(p, << >>, << TopologyState(Got(p), Len(task[p].mem)) >>)
    /\ Becomes(p, Done)

UnitStates == << "OK", "OK", "CRITICAL", "CRITICAL" >>

\* Mutation of UnitStateRow: the first row's alert is never replaced.
UnitStateRowFirst(p, i) ==
    LET new == IF task[p].mem # << >> THEN task[p].mem
               ELSE IF Val(p, i) \in DOMAIN UnitStates THEN << UnitStates[Val(p, i)], i >>
               ELSE << >>
    IN  /\ p = "brocade_stacking_unit_state"
        /\ IF new = << >>
           THEN Alerts(p, << >>, << "CRITICAL" >>) /\ Becomes(p, [Idle EXCEPT !.at = "failed"])
           ELSE Alerts(p, new[2], << new[1] >>) /\ Becomes(p, Remembers(At(p, i), new))

(* mem has the alert of the row before, which a row of another state repeats *)
(* - or cannot, which ends the plugin.                                       *)
UnitStateRow(p, i) ==
    LET v   == Val(p, i)
        new == IF v \in DOMAIN UnitStates THEN << UnitStates[v], i >> ELSE task[p].mem
    IN  /\ p = "brocade_stacking_unit_state"
        /\ IF new = << >>
           THEN Alerts(p, << >>, << "CRITICAL" >>) /\ Becomes(p, [Idle EXCEPT !.at = "failed"])
           ELSE Alerts(p, new[2], << new[1] >>) /\ Becomes(p, Remembers(At(p, i), new))

(* mem has the versions of a table by unit.                                  *)
UnitVersionRow(p, i) ==
    /\ p = "brocade_stacking_version_plugin"
    /\ LET old == task[p].mem
           new == [u \in DOMAIN old \cup {Head(i)} |-> IF u = Head(i) THEN Val(p, i) ELSE old[u]]
       IN  Becomes(p, Remembers(At(p, i), new))
    /\ Quiet

VersionsState(versions) == IF Cardinality(Range(versions)) = 1 THEN "OK" ELSE "WARNING"

(* The first of no versions raises StopIteration, which ends the coroutine   *)
(* as if it had returned.                                                    *)
UnitVersionsEnd(p) ==
    /\ p = "brocade_stacking_version_plugin"
    /\ IF task[p].mem = << >> THEN Quiet ELSE Alerts(p, << >>, << VersionsState(task[p].mem) >>)
    /\ Becomes(p, IF task[p].table = Table[p] /\ task[p].mem # << >>
                  THEN Remembers(Walks(task[p], "snStackingOperUnitBuildlVer"), << >>)
                  ELSE Done)
-----------------------------------------------------------------------------
(* DHCP snooping: two queries, and an object that is missing skips its check. *)
\* Mutation of DhcpAcl: one try around both queries.
DhcpAclOneTry(p) ==
    /\ p = "brocade_dhcp_snooping_plugin" /\ Awaits(p, "snSWACLPerPortPerVlanMode")
    /\ IF There(p) THEN Alerts(p, << >>, << IF Got(p) = 0 THEN "CRITICAL" ELSE "OK" >>)
                   ELSE Quiet
    /\ Becomes(p, IF There(p) THEN Gets(task[p], "fdryDhcpSnoopVlanDhcpSnoopEnable", << ThirdOctet >>)
                  ELSE Done)

DhcpAcl(p) ==
    /\ p = "brocade_dhcp_snooping_plugin" /\ Awaits(p, "snSWACLPerPortPerVlanMode")
    /\ IF There(p) THEN Alerts(p, << >>, << IF Got(p) = 0 THEN "CRITICAL" ELSE "OK" >>)
                   ELSE Quiet
    /\ Becomes(p, Gets(task[p], "fdryDhcpSnoopVlanDhcpSnoopEnable", << ThirdOctet >>))

DhcpSnooping(p) ==
    /\ p = "brocade_dhcp_snooping_plugin" /\ Awaits(p, "fdryDhcpSnoopVlanDhcpSnoopEnable")
    /\ IF There(p) THEN Alerts(p, << >>, << IF Got(p) = 1 THEN "OK" ELSE "CRITICAL" >>)
                   ELSE Quiet
    /\ Becomes(p, Done)
-----------------------------------------------------------------------------
(* Detection.  brocade_detect, cisco_detect and hp_detect are coroutines     *)
(* that detect awaits, so their steps are detect's.                          *)
BrocadePlugins ==
    {"brocade_unit_temperature_plugin", "brocade_agent_temperature_plugin",
     "brocade_fan_table_plugin", "brocade_stack_fan_table_plugin",
     "brocade_psu_table_plugin", "brocade_stack_psu_table_plugin",
     "brocade_cpu_usage_plugin", "brocade_mem_usage_plugin", "brocade_stack_plugin",
     "brocade_uptime_plugin", "brocade_version_plugin"}

FamilyPlugins ==
    [cisco |-> {"cisco_fan_table_plugin", "cisco_psu_table_plugin",
                "cisco_mem_usage_plugin", "cisco_cpu_usage_plugin"},
     hp    |-> {"hp_sensors_plugin", "hp_mem_usage_plugin"}]

(* sysObjectID as the longest of the known prefixes it has; BigIron RX       *)
(* switches are brocade's, and brocade_detect asks for it once more.         *)
BrocadeIds == {"brcdIp", "snBigIronRXFamily"}

\* Mutation of UserVlan: the upper end is a user VLAN.
UserVlanTo60(vlan) == vlan >= 20 /\ vlan <= 60

UserVlan(vlan) == vlan >= 20 /\ vlan < 60

AskAgain(t) == Gets(Remembers(t, << "brocade" >>), "sysObjectID", Scalar)

DetectFamily(p) ==
    LET id == Got(p)
    IN  /\ p = "detect" /\ Gives(p, "sysObjectID") /\ task[p].mem = << >>
        /\ \/ /\ id \in BrocadeIds
              /\ Starts(p, IF UserVlan(ThirdOctet) THEN Walks(task[p], "snVLanByPortMemberTagMode")
                                                   ELSE AskAgain(task[p]), BrocadePlugins)
              /\ Quiet
           \/ id \in DOMAIN FamilyPlugins /\ Starts(p, Done, FamilyPlugins[id]) /\ Quiet
           \/ id = "allied_telesis" /\ Becomes(p, Done) /\ Alerts(p, << >>, << "OK" >>)
           \/ /\ id \notin BrocadeIds \cup DOMAIN FamilyPlugins \cup {"allied_telesis"}
              /\ Becomes(p, Done) /\ Alerts(p, << >>, << "UNKNOWN" >>)

(* has_userports stops at the first untagged port.                           *)
PortSeen(p, i) ==
    /\ p = "detect"
    /\ IF Val(p, i) = 2 THEN Starts(p, AskAgain(task[p]), {"brocade_dhcp_snooping_plugin"})
                        ELSE Becomes(p, At(p, i))
    /\ Quiet

PortsSeen(p) == p = "detect" /\ Becomes(p, AskAgain(task[p])) /\ Quiet

DetectChassis(p) ==
    /\ p = "detect" /\ Gives(p, "sysObjectID") /\ task[p].mem # << >>
    /\ Starts(p, Done, IF Got(p) = "snBigIronRXFamily" THEN {}
                                                       ELSE {"brocade_temperature_plugin"})
    /\ Quiet
-----------------------------------------------------------------------------
(* Any answer may be an exception of the backend, and a missing object is    *)
(* one; the controller makes an alert of a plugin's exception.               *)
Fails(p) ==
    /\ task[p].at \in {"walk", "get"}
    /\ Alerts(p, << >>, << "CRITICAL" >>)
    /\ Becomes(p, [Idle EXCEPT !.at = "failed"])

RowStep(p) ==
    \E i \in Left(p) :
       /\ RowIs(p, i)
       /\ \/ FanRow(p, i)     \/ PsuRow(p, i)      \/ LoadRow(p, i)   \/ CiscoRow(p, i)
          \/ MemRow(p, i)     \/ SensorRow(p, i)   \/ UnitActual(p, i)
          \/ UnitCounted(p, i) \/ UnitStateRow(p, i) \/ UnitVersionRow(p, i)
          \/ PortSeen(p, i)

EndStep(p) == /\ RowsEnd(p)
              /\ \/ TableEnds(p)       \/ StackCounted(p) \/ TopologyCounted(p)
                 \/ UnitVersionsEnd(p) \/ PortsSeen(p)

GetStep(p) ==
    \/ PsuDescribed(p)    \/ CiscoNamed(p)   \/ CiscoMemUsed(p)  \/ MemGiven(p)
    \/ ChassisActual(p)   \/ WarningTemperature(p) \/ ShutdownTemperature(p)
    \/ DynMemTotal(p)     \/ DynMemFree(p)   \/ UptimeAsks(p)    \/ UptimeGiven(p)
    \/ VersionAsks(p)     \/ VersionGiven(p) \/ StackConfigured(p) \/ TopologyGiven(p)
    \/ DhcpAcl(p)         \/ DhcpSnooping(p) \/ DetectFamily(p)  \/ DetectChassis(p)

\* an answer without an exception of the backend
Answered(p) == \/ RowStep(p) \/ EndStep(p) \/ GetStep(p)
               \/ task[p].at = "get" /\ ~ There(p) /\ Fails(p)

AnyReports == /\ AnyPlugin \in DOMAIN task
              /\ Next
              /\ about' = Append(about, << AnyPlugin, << >> >>)
              /\ UNCHANGED task

PluginNext == /\ \/ AnyReports
                 \/ \E p \in DOMAIN task : RowStep(p) \/ EndStep(p) \/ GetStep(p) \/ Fails(p)
              /\ UNCHANGED device

PluginSpec == PluginInit /\ [][PluginNext]_pluginVars

(* The engine answers every query (Engine's FuturesComplete).                *)
PluginFairSpec == /\ PluginSpec
                  /\ \A p \in AllPlugins : 
                         WF_pluginVars(p \in DOMAIN task /\ Answered(p) /\ UNCHANGED device)
-----------------------------------------------------------------------------
PluginTypeOK ==
    /\ Len(about) = made
    /\ DOMAIN task \subseteq AllPlugins
    /\ \A p \in DOMAIN task :
          /\ task[p].at \in {"started", "walk", "get", "done", "failed", AnyPlugin}
          /\ task[p].row \in DOMAIN Column(task[p].table) \cup {<< >>}
    /\ \A a \in Range(about) : a[1] \in AllPlugins

(* What is wrong with the device, from the meaning of its objects: plugin p  *)
(* is the one that looks, and st the least that the check should say.        *)
Vals(o) == {Column(o)[i] : i \in DOMAIN Column(o)}
The(o)  == Column(o)[Scalar]
Reads(o, vs)     == Scalar \in DOMAIN Column(o) /\ The(o) \in vs
OtherThan(o, vs) == Scalar \in DOMAIN Column(o) /\ The(o) \notin vs

FanFault(p) == p \in FanPlugins /\ Vals(Table[p]) \ {2} # {}

PsuFault(p) ==
    /\ p \in PsuPlugins
    /\ \E i \in DOMAIN Column(Table[p]) :
          /\ Column(Table[p])[i] \notin {1, 2}
          /\ ~ /\ Column(Table[p])[i] = 3
               /\ PsuIndex(p, i) \in DOMAIN Column(Detail[p])
               /\ Column(Detail[p])[PsuIndex(p, i)] = "not present"

\* sensors: column 2 says what a sensor is, column 4 how it is
SensorFault(p, fine) ==
    /\ p = "hp_sensors_plugin"
    /\ \E i \in DOMAIN Column(Table[p]) :
          /\ i[1] = 4 /\ Column(Table[p])[i] \notin fine
          /\ Column(Table[p])[<< 2, i[2] >>] \in icfSensorType

TooHot(p, limit) ==
    /\ p = "brocade_unit_temperature_plugin"
    /\ \E i \in DOMAIN Column(Table[p]) : Column(Table[p])[i] > Column(limit)[i]

ChassisTooHot(p, limit) ==
    p = "brocade_temperature_plugin" /\ The("snChasActualTemperature") > The(limit)

UpTooLong(p, days) ==
    /\ p = "brocade_uptime_plugin" /\ The("sysDescr") \in UptimeTypes
    /\ The("snAgImgVer") < UPTIME_FIX_MIN_VERSION /\ The("snmpEngineTime") > days

VersionFault(p) ==
    /\ p = "brocade_version_plugin"
    /\ \/ The("snAgImgVer") # The("snAgFlashImgVer")
       \/ /\ The("sysDescr") \in DOMAIN MIN_VERSIONS
          /\ The("snAgImgVer") < MIN_VERSIONS[The("sysDescr")]

Units == Cardinality(DOMAIN Column("snStackingConfigUnitPriority"))
IsStack == Reads("snStackingGlobalConfigSt", {1})

StackFault(p) ==
    \/ p = "brocade_stack_plugin" /\ IsStack /\ Units < 2
    \/ p = "brocade_stacking_topology_plugin" /\ OtherThan("snStackingGlobalTopology", {2, 3})
    \/ p = "brocade_stacking_unit_state" /\ Vals(Table[p]) \cap {3, 4} # {}

StackWarning(p) ==
    \/ p = "brocade_stacking_topology_plugin" /\ Reads("snStackingGlobalTopology", {2}) /\ Units > 2
    \/ /\ p = "brocade_stacking_version_plugin" /\ Vals(Table[p]) # {}
       /\ \E o \in {Table[p], "snStackingOperUnitBuildlVer"} : Cardinality(Vals(o)) > 1

DhcpFault(p) ==
    /\ p = "brocade_dhcp_snooping_plugin"
    /\ \/ Reads(Object[p], {0})
       \/ \E i \in DOMAIN Column("fdryDhcpSnoopVlanDhcpSnoopEnable") :
             /\ i = << ThirdOctet >>
             /\ Column("fdryDhcpSnoopVlanDhcpSnoopEnable")[i] # 1

Fault(p, st) ==
    \/ /\ st = "CRITICAL"
       /\ \/ FanFault(p) \/ PsuFault(p) \/ StackFault(p) \/ DhcpFault(p)
          \/ SensorFault(p, {1, 3, 4, 5}) \/ UpTooLong(p, 1200)
          \/ TooHot(p, "snChasUnitShutdownTemperature")
          \/ ChassisTooHot(p, "snChasShutdownTemperature")
          \/ p \in CiscoPlugins /\ Vals(Table[p]) \ {1, 2, 5} # {}
    \/ /\ st = "WARNING"
       /\ \/ VersionFault(p) \/ StackWarning(p) \/ SensorFault(p, {1, 4, 5}) \/ UpTooLong(p, 1100)
          \/ TooHot(p, "snChasUnitWarningTem")
          \/ ChassisTooHot(p, "snChasWarningTemperature")
          \/ p \in CiscoPlugins /\ 2 \in Vals(Table[p])

(* When the plugin that looks for a fault has ended, the exit code is at     *)
(* least as bad as the fault, whatever row it is in, whatever the plugin     *)
(* skips, and whatever was reported before and after; a plugin that failed   *)
(* is a fault itself.  "determine the health (temperature, fan, ...) of the  *)
(* device" (README.md:8-9).  What the code does not take for a fault is none *)
(* here: a unit state or an ACL mode it does not know, and the builds of a   *)
(* stack that has no image versions (brocade.py:349, 437, 365).              *)
FaultsAreSeen ==
    \A p \in DOMAIN task :
        /\ task[p].at = "failed" => ExitState = "CRITICAL"
        /\ \A st \in {"CRITICAL", "WARNING"} :
              task[p].at = "done" /\ Fault(p, st) => Rank(ExitState) <= Rank(st)

\* The one alarm without a fault: a limit given as a number begins at 0
\* (report.py:69), although temperatures go down to -110 (brocade.py:81, 101).
Freezing(p) ==
    \/ p = "brocade_temperature_plugin" /\ The("snChasActualTemperature") < 0
    \/ /\ p = "brocade_unit_temperature_plugin"
       /\ \E i \in DOMAIN Column(Table[p]) : Column(Table[p])[i] < 0

(* The check does not cry wolf: it warns only of a fault that a started      *)
(* plugin looks for, or of a plugin that failed - or, with WARNING, of a     *)
(* temperature below 0.                                                      *)
AlarmsHaveACause ==
    ExitState \in {"CRITICAL", "WARNING"} =>
        \E p \in DOMAIN task :
            \/ task[p].at \in {"failed", AnyPlugin}
            \/ ExitState = "WARNING" /\ Freezing(p)
            \/ \E st \in Range(States) : Fault(p, st) /\ Rank(st) <= Rank(ExitState)

(* Plugins that report every row of a table report each row once, in the     *)
(* table's order, and have reported all of them when they end; that a row    *)
(* needs further queries loses none and repeats none.  A unit whose state    *)
(* has no alert of its own repeats one, but takes none from the others.      *)
TellsRows == FanPlugins \cup PsuPlugins \cup CiscoPlugins \cup LoadPlugins
             \cup {"cisco_mem_usage_plugin", "hp_mem_usage_plugin"}

RowsToTell(p) == {i \in DOMAIN Column(Table[p]) : p = "brocade_cpu_usage_plugin" => Last(i) = 300}

\* The alerts of p that are about a row, and these rows.
RowAlerts(p) == {k \in DOMAIN about : about[k][1] = p /\ about[k][2] # << >>}
ToldRows(p)  == {about[k][2] : k \in RowAlerts(p)}

UnitsAreTold ==
    LET p == "brocade_stacking_unit_state"
    IN  p \in DOMAIN task /\ task[p].at = "done" =>
            {i \in DOMAIN Column(Table[p]) : Column(Table[p])[i] \in 1 .. 4} \subseteq ToldRows(p)

RowsAreToldOnce ==
    /\ UnitsAreTold
    /\ \A p \in TellsRows \cap DOMAIN task :
           /\ ToldRows(p) \subseteq RowsToTell(p)
           /\ \A k, n \in RowAlerts(p) : k < n => about[k][2] \prec about[n][2]
           /\ task[p].at = "done" => ToldRows(p) = RowsToTell(p)

(* When detection is over, the plugins started are those the device calls    *)
(* for: user ports in a user VLAN ("3rd IP octet between 20 and 60",         *)
(* debian/changelog:9) bring the DHCP check, unless a recorded walk is asked *)
(* and there is no address, a chassis other than BigIron RX its temperature; *)
(* the stack's plugins may have been started by brocade_stack_plugin, of a   *)
(* stack only.                                                               *)
UserPorts ==
    /\ device.engine # "mock" /\ device.octet \in 20 .. 59
    /\ \E i \in DOMAIN Column("snVLanByPortMemberTagMode") :
          i[1] = device.octet /\ Column("snVLanByPortMemberTagMode")[i] = 2

CalledFor(userports) ==
    LET id == The("sysObjectID")
    IN  IF id \in DOMAIN FamilyPlugins THEN FamilyPlugins[id]
        ELSE IF id \notin BrocadeIds THEN {}
        ELSE BrocadePlugins
             \cup (IF userports THEN {"brocade_dhcp_snooping_plugin"} ELSE {})
             \cup (IF id = "brcdIp" THEN {"brocade_temperature_plugin"} ELSE {})

Called(ps) ==
    /\ {"detect"} \cup ps \subseteq DOMAIN task
    /\ DOMAIN task \subseteq {"detect"} \cup ps
          \cup (IF "brocade_stack_plugin" \in ps /\ IsStack THEN StackPlugins ELSE {})

StartedAreCalledFor ==
    "detect" \in DOMAIN task /\ task["detect"].at = "done" => Called(CalledFor(UserPorts))

(* Every plugin ends, in whatever order answers and failures come.           *)
PluginsEnd == <>(\A p \in DOMAIN task : task[p].at \notin {"walk", "get"})
=============================================================================
