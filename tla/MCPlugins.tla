----------------------------- MODULE MCPlugins ------------------------------
EXTENDS Plugins

MCLimits == {-1, 0, 2}

Between(l, h) == [low |-> l, high |-> h, invert |-> FALSE]
Inside(l, h)  == [low |-> l, high |-> h, invert |-> TRUE]

\* Values inside, at and past the limits, with open and inverted ranges, and
\* every range as a warning.
MCMetrics ==
    {Measured(v, w, c) : v \in {-1, 2, 3},
                         w \in {NoRange, Between(0, 2)},
                         c \in {Between(None, 2), Inside(2, None), Inside(-1, 0)}}
    \cup {Measured(2, r, NoRange) : r \in PerfRange}

CONSTANT NoInstance      \* a value that is noSuchInstance

MCFollowed == StackPlugins

Is(v)     == Scalar :> v
Col(s)    == [i \in {<< n >> : n \in DOMAIN s} |-> s[i[1]]]
Case(p, m) == [plugin |-> p, mib |-> m, octet |-> 20, engine |-> "simple"]

\* Tables of none to two rows with each of the values that matter.
Short(vs) == UNION {[1 .. n -> vs] : n \in 0 .. 2}

Fans == {Case(p, Table[p] :> Col(s)) : p \in FanPlugins, s \in Short({1, 2})}

Psus == {Case(p, Table[p] :> Col(s) @@ Detail[p] :> Col(d)) :
            p \in PsuPlugins, s \in Short({1, 2, 3, 4}),
            d \in {<< "not present", "here" >>, << "here", "not present" >>, << >>}}

\* A stack's supplies, of two units.
Supplies(f) == [i \in {<< 1, 1 >>, << 2, 1 >>} |-> f[i[1]]]
StackPsus ==
    {Case("brocade_stack_psu_table_plugin",
          "snChasPwrSupply2OperStatus" :> Supplies(<< 3, 3 >>)
          @@ "snChasPwrSupply2Description" :> Supplies(d)) :
        d \in {<< "not present", "not present" >>, << "not present", "here" >>}}

Loads == {Case("brocade_cpu_usage_plugin",
               "snAgentCpuUtilValue" :> (<< 1, 1, 5 >> :> 1 @@ << 1, 1, 300 >> :> 2
                                         @@ << 2, 1, 60 >> :> 3 @@ << 2, 1, 300 >> :> 4)),
          Case("brocade_agent_temperature_plugin", "snAgentTempValue" :> Col(<< 50, 60 >>)),
          Case("cisco_cpu_usage_plugin", Table["cisco_cpu_usage_plugin"] :> Col(<< 5 >>)),
          Case("cisco_mem_usage_plugin",
               "ciscoMemoryPoolName" :> Col(<< "a", "b" >>)
               @@ "ciscoMemoryPoolUsed" :> Col(<< 1, 2 >>)
               @@ "ciscoMemoryPoolFree" :> Col(<< 3, 4 >>)),
          Case("hp_mem_usage_plugin", "hpGlobalMemAllocBytes" :> Col(<< 1, 2 >>)
                                      @@ "hpGlobalMemTotalBytes" :> Col(<< 3, 4 >>)),
          Case("brocade_mem_usage_plugin", "snAgGblDynMemTotal" :> Is(8)
                                           @@ "snAgGblDynMemFree" :> Is(3))}

Ciscos == {Case(p, Table[p] :> Col(s) @@ Detail[p] :> Col(<< "a", "b" >>)) :
              p \in CiscoPlugins, s \in Short({1, 2, 4, 5, 7})}

\* Sensors of type t and state s.
Sensors(ts, ss) ==
    "hpicfSensorEntry" :>
       [i \in {<< c, n >> : c \in 1 .. 5, n \in DOMAIN ts} |->
           CASE i[1] = 1 -> i[2] [] i[1] = 2 -> ts[i[2]] [] i[1] = 4 -> ss[i[2]] [] OTHER -> 0]

OneSensor == {Case("hp_sensors_plugin", Sensors(<< t >>, << s >>)) :
                 t \in {NoSensor, 1, 3, 7}, s \in 1 .. 6}
TwoSensors == {Case("hp_sensors_plugin", Sensors(<< 1, 2 >>, << 4, 2 >>))}

\* Temperatures below 0, and below, at and above the limits of 4 and 6.
Chassis == {Case("brocade_temperature_plugin",
                 "snChasActualTemperature" :> Is(t) @@ "snChasWarningTemperature" :> Is(4)
                 @@ "snChasShutdownTemperature" :> Is(6)) : t \in {-1} \cup 3 .. 7}

UnitsAt(s) == Case("brocade_unit_temperature_plugin",
                   "snChasUnitActualTemp" :> Col(s)
                   @@ "snChasUnitWarningTem" :> Col(<< 4, 4 >>)
                   @@ "snChasUnitShutdownTemperature" :> Col(<< 6, 6 >>))
HotUnits  == {UnitsAt(<< >>)} \cup {UnitsAt(<< t >>) : t \in {-1} \cup 3 .. 7}
             \cup {UnitsAt(<< t, u >>) : t \in 4 .. 7, u \in {-1} \cup 3 .. 7}
CoolFirst == {UnitsAt(<< 3, 7 >>)}

SwitchAt(p, descr, img, flash, days) ==
    Case(p, "sysDescr" :> Is(descr) @@ "snAgImgVer" :> Is(img)
            @@ "snAgFlashImgVer" :> Is(flash) @@ "snmpEngineTime" :> Is(days))
Switches == {SwitchAt("brocade_uptime_plugin", t, v, v, d) :
                t \in {"FWS", "ICX6430", "ICX7"}, v \in {8, 9}, d \in {1100, 1101, 1200, 1201}}
            \cup {SwitchAt("brocade_version_plugin", t, v, v, 1) :
                     t \in {"FWS", "ICX6430", "ICX7"}, v \in {4, 5, 7, 8}}
OtherFlash == {SwitchAt("brocade_version_plugin", "FWS", 6, 5, 1)}

\* Stacks of none to three units; a unit's state is one of 1 to 5.
StackOf(n, topology, states, images, builds) ==
    Case("brocade_stack_plugin",
         "snStackingGlobalConfigSt" :> Is(1) @@ "snStackingGlobalTopology" :> Is(topology)
         @@ "snStackingConfigUnitPriority" :> Col([i \in 1 .. n |-> 128])
         @@ "snStackingConfigUnitState" :> Col(states)
         @@ "snStackingOperUnitImgVer" :> Col(images)
         @@ "snStackingOperUnitBuildlVer" :> Col(builds))

\* One aspect varied at a time, and one stack with all of them.
Stacks == {StackOf(n, t, << >>, << >>, << >>) : n \in 0 .. 3, t \in 1 .. 5}
          \cup {StackOf(2, 3, s, << >>, << >>) : s \in [1 .. 2 -> 1 .. 5]}
          \cup {StackOf(2, 3, << >>, << 8, 8 >>, w) : w \in {<< >>, << 3, 3 >>, << 3, 4 >>}}
          \cup {StackOf(2, 3, << >>, << 8, 9 >>, << 3, 3 >>),
                StackOf(2, 3, << >>, << >>, << 3, 4 >>),
                StackOf(2, 2, << 1, 3 >>, << 8, 9 >>, << 3 >>)}
          \cup {Case("brocade_stack_plugin", m) :
                   m \in {<< >>, "snStackingGlobalConfigSt" :> Is(0),
                          "snStackingGlobalConfigSt" :> Is(NoInstance)}}

Asked(o, vs) == {<< >>} \cup {o :> v : v \in vs}

Dhcps == {Case("brocade_dhcp_snooping_plugin", a @@ b) :
             a \in Asked("snSWACLPerPortPerVlanMode", {Is(0), Is(1), Is(NoInstance)}),
             b \in Asked("fdryDhcpSnoopVlanDhcpSnoopEnable", {<< 20 >> :> 1, << 20 >> :> 2,
                                                             << 21 >> :> 2})}

\* Devices in and around the user VLANs, with ports in two of them.
Detect(id, octet, engine, ports) ==
    [plugin |-> "detect", octet |-> octet, engine |-> engine,
     mib |-> "sysObjectID" :> Is(id) @@ "snVLanByPortMemberTagMode" :> ports]

\* Port n of each VLAN is untagged, if there is one.
Untagged(n) == [i \in {19, 20, 59, 60} \X {1, 2} |-> IF i[2] = n THEN 2 ELSE 1]

Detects == {Detect(id, o, e, Untagged(n)) :
               o \in {19, 20, 59, 60}, e \in {"simple", "cached", "mock"}, n \in 1 .. 3,
               id \in {"brcdIp", "snBigIronRXFamily", "cisco", "hp", "allied_telesis", "other"}}
           \cup {Detect("brcdIp", o, "bulk", Untagged(n)) : o \in {19, 60}, n \in 1 .. 3}
           \cup {Detect("brcdIp", 20, "bulk", Untagged(3))}
BulkDetects == {Detect("brcdIp", 20, "bulk", Untagged(1))}

MCCases == Fans \cup Psus \cup StackPsus \cup Loads \cup Ciscos \cup OneSensor \cup Chassis
           \cup HotUnits \cup Switches \cup Stacks \cup Dhcps \cup Detects \cup {Case(AnyPlugin, << >>)}
=============================================================================
