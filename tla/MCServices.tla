------------------------------ MODULE MCServices ------------------------------
(***************************************************************************)
(* Seven parts of the daemon that share no state: the conversation log,    *)
(* the conversation service, the service host with the gateway, the plugin *)
(* service, the calls of one of its runtimes, the installation of a        *)
(* plugin, and the output of a session.  One run checks them all; in a     *)
(* behaviour one of them is at work, and the others stay in an initial     *)
(* state.                                                                  *)
(***************************************************************************)
EXTENDS ConversationLog, Conversation, TransportHost, PluginRuntime,
        RuntimeCalls, PluginInstall, SessionOutput, TLC

CONSTANTS user1, user2    \* bindings and clients: one part is at work at a time

VARIABLE part

MCBindings == {user1, user2}
MCViewers == {user1, user2}
Symmetry == Permutations({user1, user2})

Parts == {"log", "conversation", "host", "plugins", "calls", "install", "output"}

Init ==
    /\ part \in Parts
    /\ LogInit /\ ConvInit /\ HostInit /\ PluginInit /\ CallsInit /\ InstallInit /\ OutputInit
    /\ store.port = 0

\* Bound: what happens to the host, all told.
HostBound == updates + renewals + 2 * hostFaults <= 3

\* Bound: chunks of output, clients attached, and a tool detected.
OutputBound ==
    LET attached == Cardinality({x \in Viewers : viewer[x] # "away"}) IN
        2 * attached + outputs + (IF detected = NoTool THEN 0 ELSE 2) <= 5

servicesVars ==
    <<part, logVars, convVars, hostVars, pluginVars, runtimeVars, installVars, outputVars>>

Next ==
    /\ UNCHANGED part
    /\ \/ /\ part = "log" /\ LogNext
          /\ UNCHANGED <<convVars, hostVars, pluginVars, runtimeVars, installVars, outputVars>>
       \/ /\ part = "conversation" /\ ConvNext
          /\ UNCHANGED <<logVars, hostVars, pluginVars, runtimeVars, installVars, outputVars>>
       \/ /\ part = "host" /\ HostNext /\ HostBound'
          /\ UNCHANGED <<logVars, convVars, pluginVars, runtimeVars, installVars, outputVars>>
       \/ /\ part = "plugins" /\ PluginNext
          /\ UNCHANGED <<logVars, convVars, hostVars, runtimeVars, installVars, outputVars>>
       \/ /\ part = "calls" /\ CallsNext
          /\ UNCHANGED <<logVars, convVars, hostVars, pluginVars, installVars, outputVars>>
       \/ /\ part = "install" /\ InstallNext
          /\ UNCHANGED <<logVars, convVars, hostVars, pluginVars, runtimeVars, outputVars>>
       \/ /\ part = "output" /\ OutputNext /\ OutputBound'
          /\ UNCHANGED <<logVars, convVars, hostVars, pluginVars, runtimeVars, installVars>>

Spec == Init /\ [][Next]_servicesVars

\* The states of the part at work have their types; the others keep their first.
ServicesTypeOK ==
    CASE part = "log" -> LogTypeOK
      [] part = "conversation" -> ConvTypeOK
      [] part = "host" -> HostTypeOK
      [] part = "plugins" -> PluginTypeOK
      [] part = "calls" -> CallsTypeOK
      [] part = "install" -> InstallTypeOK
      [] part = "output" -> OutputTypeOK
=============================================================================
