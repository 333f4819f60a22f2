---------------------------- MODULE MCScmiPower ----------------------------
(* Instances of ScmiPower for TLC.                                         *)
EXTENDS ScmiPower

Msg(p, m, a, v) == [proto |-> p, msg |-> m, arg |-> a, val |-> v]

\* The states 1 and 17 are both on, 2 is neither on nor off; domain 7 has
\* neither a table entry nor a line.
MCPowerRequests ==
  {Msg("power", PowerSet, 1, s) : s \in {0, 2, 17}}
    \cup {Msg("power", PowerSet, 2, 1), Msg("power", PowerSet, 7, 0),
          Msg("power", PowerGet, 1, 0), Msg("sys", SysSet, 1, 0)}

\* Discovery, and uses of what may have been announced or not; responses with
\* data and without, refused and with a wrong parameter.
MCProtocolRequests ==
  {Msg("base", DiscoverProtocols, 0, 0), Msg("base", 8, 0, 0),
   Msg("pfdi", 0, 0, 0), Msg("sys", 0, 0, 0),
   Msg("power", MessageAttributes, 4, 0), Msg("perf", LevelSet, 1, 0)}
    \cup {Msg("perf", MessageAttributes, m, 0) : m \in {4, 11}}
    \cup {Msg("perf", m, 0, 0) : m \in {4, 11}}
=============================================================================
