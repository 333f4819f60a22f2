----------------------------- MODULE FaultPath -----------------------------
(***************************************************************************)
(* The fault path of the safety island: the lines of its zena_fmu drive    *)
(* the fault inputs of its zena_ssu, inside the register write that        *)
(* changed them (platforms/apollo/hw-block/si_cl0.lua binds them).         *)
(***************************************************************************)
EXTENDS ZenaFmu, ZenaSsu

vars == <<fmuVars, ssu>>

\* Mutant: the safety state follows the line, and a fault that goes away takes
\* the SSU back, whatever the other line says.
ReceivedBothWays(s, old, new, critical) ==
  CASE new         -> {Fault(s, critical)}
    [] old /\ ~new -> {Updated([s EXCEPT !.sys = "SAFE"])}
    [] OTHER       -> {s}

\* The signal socket calls back when the value has changed.  Whether it does
\* so for a write of the value it holds is not settled by this repository.
Received(s, old, new, critical) ==
  CASE new /\ ~old -> {Fault(s, critical)}
    [] new /\ old  -> {s, Fault(s, critical)}
    [] OTHER       -> {s}

\* emit_irqs: every output is written once either line has changed.
Emit ==
  IF criticalLine' # criticalLine \/ nonCriticalLine' # nonCriticalLine
  THEN ssu' \in UNION {Received(s, nonCriticalLine, nonCriticalLine', FALSE) :
                         s \in Received(ssu, criticalLine, criticalLine', TRUE)}
  ELSE UNCHANGED ssu

Init == FmuInit /\ SsuInit

Next ==
  \/ FmuWrite /\ Emit
  \/ SsuWrite /\ UNCHANGED fmuVars

Spec == Init /\ [][Next]_vars

-----------------------------------------------------------------------------
(* Properties                                                              *)

TypeOK == FmuTypeOK /\ ssu \in Ssus

\* The safety output is high exactly in the two error states, whoever moved
\* the state: a fault, a cleared record or SYS_CTRL.
SafetyOutputExact == ssu.out = (ssu.sys \in ErrorStates)

\* A line of the FMU that rises while the SSU accepts that kind of fault
\* puts the SSU into an error state with a valid record and raises the
\* safety output in the same step.
Accepts(s, critical) == s.ed /\ (IF critical THEN "CR_EN" ELSE "NCR_EN") \in s.impdef
FaultReachesSsu ==
  [][(\/ ~criticalLine /\ criticalLine' /\ Accepts(ssu, TRUE)
      \/ ~nonCriticalLine /\ nonCriticalLine' /\ Accepts(ssu, FALSE))
     => ssu'.sys \in ErrorStates /\ "V" \in ssu'.err /\ ssu'.out]_vars

\* Nothing but a keyed write to the SSU ends an error state: not the fault
\* going away, and not the other fault arriving.
ErrorIsHeld ==
  [][(SsuEnforceKey /\ ssu.sys \in ErrorStates /\ ssu'.sys \notin ErrorStates)
     => ssu.unlocked /\ ~ssu'.unlocked]_vars

\* Unless software itself asks for an error state, the SSU is in one only
\* while ERR_STATUS holds a valid record that explains it.
ErrorHasRecord ==
  (SysCtrlValues \cap ErrorStates = {} /\ ssu.sys \in ErrorStates)
    => "V" \in ssu.err
=============================================================================
