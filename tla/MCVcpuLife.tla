----------------------------- MODULE MCVcpuLife -----------------------------
EXTENDS VcpuLife

CONSTANTS c0, c1

\* Two vcpus share the first cpu, the third has a cpu of its own
PinShared == <<c0, c0, c1>>
PinOf == [v \in Vcpu |-> PinShared[v + 1]]

\* A guest like Linux: the boot vcpu starts the others, and shuts down or
\* resets the machine
Boot ==
  [call |-> [v \in Vcpu |-> IF v = Primary THEN {"on", "sysoff", "reset"}
                            ELSE {}],
   patient |-> TRUE]
\* The boot vcpu starts the others, and each of them may power itself off
Hotplug ==
  [call |-> [v \in Vcpu |-> IF v = Primary THEN {"on"} ELSE {"off"}],
   patient |-> TRUE]
\* The second vcpu shuts down or resets the machine whatever the first does,
\* and the console is impatient
Wild ==
  [call |-> [v \in Vcpu |-> CASE v = Primary -> {"on", "off", "standby"}
                              [] v = 1 -> {"sysoff"}
                              [] OTHER -> {"reset"}],
   patient |-> FALSE]

UsageBoot    == {Boot}
UsageHotplug == {Hotplug}
UsageAll     == {Boot, Hotplug, Wild}
=============================================================================
