-------------------------- MODULE FaultPathProofs --------------------------
(***************************************************************************)
(* Proofs about FaultPath, for any number of banks and records, any masks, *)
(* with and without the keys.                                              *)
(***************************************************************************)
EXTENDS FaultPath, TLAPS

-----------------------------------------------------------------------------
(* The handlers of the SSU                                                 *)

\* What update_output changes.
LEMMA UpdatedFacts ==
  ASSUME NEW s \in Ssus
  PROVE  /\ Updated(s) \in Ssus
         /\ Updated(s).out = (s.sys \in ErrorStates)
         /\ Updated(s).sys = s.sys /\ Updated(s).err = s.err
         /\ Updated(s).unlocked = s.unlocked /\ Updated(s).ed = s.ed
         /\ Updated(s).impdef = s.impdef
<1>1. (s.sys \in ErrorStates) \in BOOLEAN
  OBVIOUS
<1> QED
  BY <1>1 DEF Updated, Ssus

\* What set_sequence_error changes.
LEMMA SequenceErrorFacts ==
  ASSUME NEW s \in Ssus
  PROVE  /\ SequenceError(s) \in Ssus
         /\ SequenceError(s).out = (s.sys \in ErrorStates)
         /\ SequenceError(s).sys = s.sys
         /\ s.err \subseteq SequenceError(s).err
         /\ SequenceError(s).unlocked = s.unlocked
<1> DEFINE e == IF "INC_SEQ" \in s.impdef THEN s.err \cup {"V", "INC_SEQ"} ELSE s.err
           t == [s EXCEPT !.err = e]
<1>1. e \subseteq ErrBits /\ s.err \subseteq e
  BY DEF Ssus, ErrBits, ErrCauses
<1> HIDE DEF e
<1>2. t \in Ssus /\ t.sys = s.sys /\ t.err = e /\ t.unlocked = s.unlocked
  BY <1>1 DEF Ssus
<1>3. SequenceError(s) = Updated(t)
  BY DEF SequenceError, e
<1> HIDE DEF t
<1> QED
  BY <1>1, <1>2, <1>3, UpdatedFacts

\* What set_fault changes.
LEMMA FaultFacts ==
  ASSUME NEW s \in Ssus, NEW critical \in BOOLEAN
  PROVE  /\ Fault(s, critical) \in Ssus
         /\ Fault(s, critical).unlocked = s.unlocked
         /\ \/ Fault(s, critical) = s /\ ~Accepts(s, critical)
            \/ /\ Accepts(s, critical)
               /\ Fault(s, critical).sys \in ErrorStates
               /\ "V" \in Fault(s, critical).err
               /\ Fault(s, critical).out = TRUE
         /\ \A c \in BOOLEAN : Accepts(Fault(s, critical), c) = Accepts(s, c)
<1> DEFINE y == IF critical THEN "ERRC" ELSE "ERRN"
           e == s.err \cup {"V", "ERR_IN"}
           t == [s EXCEPT !.err = e, !.sys = y]
<1>1. e \subseteq ErrBits /\ "V" \in e /\ y \in ErrorStates /\ y \in SysStates
  BY DEF Ssus, ErrBits, ErrCauses, ErrorStates, SysStates
<1> HIDE DEF e, y
<1>2. /\ t \in Ssus /\ t.sys = y /\ t.err = e /\ t.unlocked = s.unlocked
      /\ t.ed = s.ed /\ t.impdef = s.impdef
  BY <1>1 DEF Ssus
<1>3. Fault(s, critical) = IF Accepts(s, critical) THEN Updated(t) ELSE s
  BY DEF Fault, Accepts, e, y
<1> HIDE DEF t
<1>4. CASE Accepts(s, critical)
  <2>1. Fault(s, critical) = Updated(t)
    BY <1>3, <1>4
  <2>2. Updated(t).ed = s.ed /\ Updated(t).impdef = s.impdef
    BY <1>2, UpdatedFacts
  <2>3. \A c \in BOOLEAN : Accepts(Updated(t), c) = Accepts(s, c)
    BY <2>2 DEF Accepts
  <2> QED
    BY <1>1, <1>2, <1>4, <2>1, <2>3, UpdatedFacts
<1>5. CASE ~Accepts(s, critical)
  BY <1>3, <1>5
<1> QED
  BY <1>4, <1>5

\* What write_status changes.
LEMMA StatusWrittenFacts ==
  ASSUME NEW s \in Ssus, NEW v \in ErrStatusValues
  PROVE  /\ StatusWritten(s, v) \in Ssus
         /\ StatusWritten(s, v).unlocked = s.unlocked
         /\ StatusWritten(s, v).out = (StatusWritten(s, v).sys \in ErrorStates)
         /\ StatusWritten(s, v).sys \in ErrorStates => "V" \in StatusWritten(s, v).err
<1> DEFINE c == s.err \ (v \cap {"V"})
           e == IF "V" \in c THEN (c \ ErrCauses) \cup (v \cap ErrCauses) ELSE c
           y == IF "V" \notin e /\ s.sys \in ErrorStates THEN "SAFE" ELSE s.sys
           t == [s EXCEPT !.err = e, !.sys = y]
<1>1. e \subseteq ErrBits
  BY DEF Ssus, ErrBits
<1>2. y \in SysStates /\ (y \in ErrorStates => "V" \in e)
  BY DEF Ssus, SysStates, ErrorStates
<1> HIDE DEF e, y
<1>3. t \in Ssus /\ t.sys = y /\ t.err = e /\ t.unlocked = s.unlocked
  BY <1>1, <1>2 DEF Ssus
<1>4. StatusWritten(s, v) = Updated(t)
  BY DEF StatusWritten, e, y
<1> HIDE DEF t
<1> QED
  BY <1>2, <1>3, <1>4, UpdatedFacts

-----------------------------------------------------------------------------
(* One emission of the FMU's lines                                         *)

\* The effect of callbacks on the SSU: none, or an error state that is
\* recorded and reported.
InError(t) == t.sys \in ErrorStates /\ "V" \in t.err /\ t.out = TRUE
Follows(s, t) ==
  /\ t \in Ssus
  /\ t.unlocked = s.unlocked
  /\ \A c \in BOOLEAN : Accepts(t, c) = Accepts(s, c)
  /\ t = s \/ InError(t)

\* A callback leads from a state to one that follows it, and into an error
\* state when the line rises and the fault is accepted.
LEMMA ReceivedFacts ==
  ASSUME NEW s \in Ssus, NEW old \in BOOLEAN, NEW new \in BOOLEAN,
         NEW critical \in BOOLEAN, NEW t \in Received(s, old, new, critical)
  PROVE  /\ Follows(s, t)
         /\ (new /\ ~old /\ Accepts(s, critical)) => InError(t)
<1>1. Follows(s, s)
  BY DEF Follows
<1>2. Follows(s, Fault(s, critical))
  BY FaultFacts DEF Follows, InError
<1>3. Accepts(s, critical) => InError(Fault(s, critical))
  BY FaultFacts DEF InError
<1>4. t = s \/ t = Fault(s, critical)
  BY DEF Received
<1>5. new /\ ~old => t = Fault(s, critical)
  BY DEF Received
<1> QED
  BY <1>1, <1>2, <1>3, <1>4, <1>5

\* Both callbacks of an emission, in the order emit_irqs calls them.
LEMMA EmitFacts ==
  ASSUME TypeOK, FmuTypeOK', Emit
  PROVE  /\ Follows(ssu, ssu')
         /\ (~criticalLine /\ criticalLine' /\ Accepts(ssu, TRUE)) => InError(ssu')
         /\ (~nonCriticalLine /\ nonCriticalLine' /\ Accepts(ssu, FALSE)) => InError(ssu')
<1> USE DEF TypeOK
<1>1. /\ criticalLine \in BOOLEAN /\ criticalLine' \in BOOLEAN
      /\ nonCriticalLine \in BOOLEAN /\ nonCriticalLine' \in BOOLEAN
  BY DEF FmuTypeOK
<1>2. CASE criticalLine' # criticalLine \/ nonCriticalLine' # nonCriticalLine
  <2>1. PICK s \in Received(ssu, criticalLine, criticalLine', TRUE) :
          ssu' \in Received(s, nonCriticalLine, nonCriticalLine', FALSE)
    BY <1>2 DEF Emit
  <2>2. /\ Follows(ssu, s)
        /\ (~criticalLine /\ criticalLine' /\ Accepts(ssu, TRUE)) => InError(s)
    BY <1>1, ReceivedFacts
  <2>3. s \in Ssus /\ s.unlocked = ssu.unlocked
        /\ Accepts(s, FALSE) = Accepts(ssu, FALSE)
    BY <2>2 DEF Follows
  <2>4. /\ Follows(s, ssu')
        /\ (~nonCriticalLine /\ nonCriticalLine' /\ Accepts(s, FALSE)) => InError(ssu')
    BY <1>1, <2>1, <2>3, ReceivedFacts
  <2>5. InError(s) => InError(ssu')
    BY <2>4 DEF Follows
  <2>6. Follows(ssu, ssu')
    BY <2>2, <2>4 DEF Follows
  <2> QED
    BY <2>2, <2>3, <2>4, <2>5, <2>6
<1>3. CASE ~(criticalLine' # criticalLine \/ nonCriticalLine' # nonCriticalLine)
  <2>1. ssu' = ssu
    BY <1>3 DEF Emit
  <2>2. Follows(ssu, ssu')
    BY <2>1 DEF Follows
  <2>3. criticalLine' = criticalLine /\ nonCriticalLine' = nonCriticalLine
    BY <1>3
  <2>4. ~(~criticalLine /\ criticalLine') /\ ~(~nonCriticalLine /\ nonCriticalLine')
    BY <2>3
  <2> QED
    BY <2>2, <2>4
<1> QED
  BY <1>2, <1>3

-----------------------------------------------------------------------------
(* Register writes of the SSU                                              *)

\* What any write to the SSU leaves: the output follows the state, and an
\* error state is left only by a write that spends the key.
LEMMA SsuWriteFacts ==
  ASSUME ssu \in Ssus, SafetyOutputExact, ErrorHasRecord, SsuWrite
  PROVE  /\ ssu' \in Ssus
         /\ SafetyOutputExact'
         /\ ErrorHasRecord'
         /\ \/ ssu'.sys = ssu.sys
            \/ SsuEnforceKey => ssu.unlocked /\ ~ssu'.unlocked
<1> DEFINE Held == \/ ssu'.sys = ssu.sys
                   \/ SsuEnforceKey => ssu.unlocked /\ ~ssu'.unlocked
<1>a. (ssu'.sys = ssu.sys /\ ssu.err \subseteq ssu'.err) => ErrorHasRecord'
  BY DEF ErrorHasRecord
<1>b. SsuEnforceKey \in BOOLEAN
  BY SsuAssumption
<1>1. SsuMayWrite =>
        /\ Spent \in Ssus /\ Spent.sys = ssu.sys /\ Spent.err = ssu.err
        /\ Spent.out = ssu.out
        /\ SsuEnforceKey => ssu.unlocked = TRUE /\ Spent.unlocked = FALSE
  <2>1. (ssu.unlocked /\ ~SsuEnforceKey) \in BOOLEAN
    OBVIOUS
  <2>2. /\ Spent \in Ssus /\ Spent.sys = ssu.sys /\ Spent.err = ssu.err
        /\ Spent.out = ssu.out
        /\ Spent.unlocked = (ssu.unlocked /\ ~SsuEnforceKey)
    BY <2>1 DEF Spent, Ssus
  <2>3. ssu.unlocked \in BOOLEAN
    BY DEF Ssus
  <2> QED
    BY <1>b, <2>2, <2>3 DEF SsuMayWrite
<1>2. CASE SsuWriteKey
  <2>1. CASE ssu' = [ssu EXCEPT !.unlocked = TRUE]
    <3>1. /\ ssu' \in Ssus /\ ssu'.sys = ssu.sys /\ ssu'.err = ssu.err
          /\ ssu'.out = ssu.out
      BY <2>1 DEF Ssus
    <3> QED
      BY <1>a, <3>1 DEF SafetyOutputExact
  <2>2. CASE ssu' = SequenceError([ssu EXCEPT !.unlocked = FALSE])
    <3> DEFINE t == [ssu EXCEPT !.unlocked = FALSE]
    <3>1. t \in Ssus /\ t.sys = ssu.sys /\ t.err = ssu.err
      BY DEF Ssus
    <3>2. ssu' = SequenceError(t)
      BY <2>2
    <3> HIDE DEF t
    <3> QED
      BY <1>a, <3>1, <3>2, SequenceErrorFacts DEF SafetyOutputExact
  <2> QED
    BY <1>2, <2>1, <2>2 DEF SsuWriteKey
<1>3. CASE SsuLockedWrite
  <2>1. ssu' = SequenceError(ssu)
    BY <1>3 DEF SsuLockedWrite
  <2> QED
    BY <1>a, <2>1, SequenceErrorFacts DEF SafetyOutputExact
<1>4. CASE WriteErrCtrl
  <2>1. PICK v \in BOOLEAN : ssu' = Updated([Spent EXCEPT !.ed = v])
    BY <1>4 DEF WriteErrCtrl
  <2> DEFINE t == [Spent EXCEPT !.ed = v]
  <2>2. SsuMayWrite
    BY <1>4 DEF WriteErrCtrl
  <2>3. /\ t \in Ssus /\ t.sys = ssu.sys /\ t.err = ssu.err
        /\ t.unlocked = Spent.unlocked
    BY <1>1, <2>2 DEF Ssus
  <2>4. ssu' = Updated(t)
    BY <2>1
  <2> HIDE DEF t
  <2> QED
    BY <1>a, <2>3, <2>4, UpdatedFacts DEF SafetyOutputExact
<1>5. CASE WriteErrStatus
  <2>1. PICK v \in ErrStatusValues : ssu' = StatusWritten(Spent, v)
    BY <1>5 DEF WriteErrStatus
  <2>2. SsuMayWrite
    BY <1>5 DEF WriteErrStatus
  <2>3. Spent \in Ssus /\ (SsuEnforceKey => ssu.unlocked /\ ~Spent.unlocked)
    BY <1>1, <2>2
  <2>4. /\ ssu' \in Ssus /\ ssu'.unlocked = Spent.unlocked
        /\ ssu'.out = (ssu'.sys \in ErrorStates)
        /\ ssu'.sys \in ErrorStates => "V" \in ssu'.err
    BY <2>1, <2>3, StatusWrittenFacts
  <2> QED
    BY <2>3, <2>4 DEF SafetyOutputExact, ErrorHasRecord
<1>6. CASE WriteErrImpdef
  <2>1. PICK v \in ImpdefValues : ssu' = Updated([Spent EXCEPT !.impdef = v])
    BY <1>6 DEF WriteErrImpdef
  <2> DEFINE t == [Spent EXCEPT !.impdef = v]
  <2>2. SsuMayWrite
    BY <1>6 DEF WriteErrImpdef
  <2>3. v \in SUBSET ImpdefBits
    BY SsuAssumption
  <2>4. /\ t \in Ssus /\ t.sys = ssu.sys /\ t.err = ssu.err
        /\ t.unlocked = Spent.unlocked
    BY <1>1, <2>2, <2>3 DEF Ssus
  <2>5. ssu' = Updated(t)
    BY <2>1
  <2> HIDE DEF t
  <2> QED
    BY <1>a, <2>4, <2>5, UpdatedFacts DEF SafetyOutputExact
<1>7. CASE WriteSysCtrl
  <2>1. PICK v \in SysCtrlValues : ssu' = Updated([Spent EXCEPT !.sys = v])
    BY <1>7 DEF WriteSysCtrl
  <2> DEFINE t == [Spent EXCEPT !.sys = v]
  <2>2. SsuMayWrite
    BY <1>7 DEF WriteSysCtrl
  <2>3. v \in SysStates
    BY SsuAssumption
  <2>4. t \in Ssus /\ t.sys = v /\ t.unlocked = Spent.unlocked
    BY <1>1, <2>2, <2>3 DEF Ssus
  <2>5. ssu' = Updated(t)
    BY <2>1
  <2> HIDE DEF t
  <2>6. /\ ssu' \in Ssus /\ ssu'.sys = v /\ ssu'.unlocked = Spent.unlocked
        /\ ssu'.out = (ssu'.sys \in ErrorStates)
    BY <2>4, <2>5, UpdatedFacts
  <2>7. SsuEnforceKey => ssu.unlocked /\ ~Spent.unlocked
    BY <1>1, <2>2
  <2>8. ErrorHasRecord'
    BY <2>6 DEF ErrorHasRecord
  <2> QED
    BY <2>6, <2>7, <2>8 DEF SafetyOutputExact
<1>8. CASE SsuWriteOther
  <2>1. ssu' = Spent /\ SsuMayWrite
    BY <1>8 DEF SsuWriteOther
  <2> QED
    BY <1>a, <1>1, <2>1 DEF SafetyOutputExact
<1> QED
  BY <1>2, <1>3, <1>4, <1>5, <1>6, <1>7, <1>8 DEF SsuWrite

-----------------------------------------------------------------------------
(* Register writes of the FMU                                              *)

\* The types of the words the writes produce.
LEMMA WordTypes ==
  /\ LastRecord \in Records
  /\ \A s \in SUBSET StatusBits : s \cup {"V", "INC_SEQ"} \in SUBSET StatusBits
  /\ \A s \in SUBSET StatusBits, v \in SUBSET StatusBits :
       ClearedStatus(s, v) \in SUBSET StatusBits
  /\ \A s \in SUBSET StatusBits, r \in Records, ed, ic, ie \in BOOLEAN :
       InjectedStatus(s, r, ed, ic, ie) \in SUBSET StatusBits
<1>1. LastRecord \in Records
  BY FmuAssumption DEF LastRecord, Records
<1>2. \A s \in SUBSET StatusBits : s \cup {"V", "INC_SEQ"} \in SUBSET StatusBits
  BY DEF StatusBits, W1C, FaultCauses
<1>3. \A s \in SUBSET StatusBits, v \in SUBSET StatusBits :
        ClearedStatus(s, v) \in SUBSET StatusBits
  BY DEF ClearedStatus
<1>4. \A s \in SUBSET StatusBits, r \in Records, ed, ic, ie \in BOOLEAN :
        InjectedStatus(s, r, ed, ic, ie) \in SUBSET StatusBits
  BY DEF InjectedStatus, StatusBits, W1C, FaultCauses
<1> QED
  BY <1>1, <1>2, <1>3, <1>4

\* Replacing one word of one bank keeps the type and the other banks.
LEMMA OneWord ==
  ASSUME NEW W, NEW f \in [Banks -> [Records -> W]], NEW b \in Banks,
         NEW r \in Records, NEW w \in W
  PROVE  LET g == [f EXCEPT ![b][r] = w]
         IN  /\ g \in [Banks -> [Records -> W]]
             /\ \A c \in Banks \ {b} : g[c] = f[c]
             /\ g[b][r] = w
             /\ \A q \in Records \ {r} : g[b][q] = f[b][q]
OBVIOUS

\* The lines after update_irqs are Booleans.
LEMMA LinesType ==
  ASSUME UpdateIrqs
  PROVE  criticalLine' \in BOOLEAN /\ nonCriticalLine' \in BOOLEAN
BY DEF UpdateIrqs, CriticalFault, NonCriticalFault

\* What set_sequence_error keeps: it only adds to a record.
LEMMA SequenceErrorStep ==
  ASSUME FmuTypeOK, NEW b \in Banks, SetSequenceError(b)
  PROVE  /\ ctlr' = ctlr /\ status' \in [Banks -> [Records -> SUBSET StatusBits]]
         /\ \A c \in Banks, r \in Records : status[c][r] \subseteq status'[c][r]
         /\ criticalLine' \in BOOLEAN /\ nonCriticalLine' \in BOOLEAN
         /\ FmuLinesExact'
<1> DEFINE w == status[b][LastRecord] \cup {"V", "INC_SEQ"}
<1>1. w \in SUBSET StatusBits /\ LastRecord \in Records
  BY WordTypes DEF FmuTypeOK
<1>2. status[b][LastRecord] \subseteq w
  OBVIOUS
<1>3. status' = [status EXCEPT ![b][LastRecord] = w]
  BY DEF SetSequenceError
<1> HIDE DEF w
<1>4. /\ status' \in [Banks -> [Records -> SUBSET StatusBits]]
      /\ \A c \in Banks \ {b} : status'[c] = status[c]
      /\ status'[b][LastRecord] = w
      /\ \A q \in Records \ {LastRecord} : status'[b][q] = status[b][q]
  BY <1>1, <1>3, OneWord DEF FmuTypeOK
<1>5. \A c \in Banks, r \in Records : status[c][r] \subseteq status'[c][r]
  BY <1>2, <1>4
<1>6. UpdateIrqs /\ ctlr' = ctlr
  BY DEF SetSequenceError
<1> QED
  BY <1>4, <1>5, <1>6, LinesType DEF FmuLinesExact, UpdateIrqs

\* The step of OneKeyOneWrite for bank c.
KeptOrSpent(c) ==
  \/ /\ ctlr'[c] = ctlr[c]
     /\ \A r \in Records : status[c][r] \subseteq status'[c][r]
  \/ c \in unlocked /\ c \notin unlocked'

\* Any write to the FMU keeps the types and leaves exact lines; a bank that
\* loses anything has spent its key.
LEMMA FmuWriteFacts ==
  ASSUME FmuTypeOK, FmuLinesExact, FmuWrite
  PROVE  /\ FmuTypeOK'
         /\ FmuLinesExact'
         /\ FmuEnforceKey => \A c \in Banks : KeptOrSpent(c)
<1> PICK b \in Banks :
      \/ FmuWriteKey(b) \/ FmuLockedWrite(b) \/ FmuWriteOther(b)
      \/ \E r \in Records :
           \/ \E v \in CtlrValues : WriteCtlr(b, r, v)
           \/ \E v \in StatusValues : WriteStatus(b, r, v)
           \/ \E ic, ie \in BOOLEAN : WriteImpdef(b, r, ic, ie)
  BY DEF FmuWrite
<1>a. ASSUME SetSequenceError(b), unlocked' \in SUBSET Banks
      PROVE  /\ FmuTypeOK' /\ FmuLinesExact'
             /\ \A c \in Banks : KeptOrSpent(c)
  <2>1. /\ ctlr' = ctlr /\ status' \in [Banks -> [Records -> SUBSET StatusBits]]
        /\ \A c \in Banks, r \in Records : status[c][r] \subseteq status'[c][r]
        /\ criticalLine' \in BOOLEAN /\ nonCriticalLine' \in BOOLEAN
        /\ FmuLinesExact'
    BY <1>a, SequenceErrorStep
  <2> QED
    BY <1>a, <2>1 DEF FmuTypeOK, KeptOrSpent
<1>b. ASSUME UNCHANGED <<ctlr, status, criticalLine, nonCriticalLine>>,
             unlocked' \in SUBSET Banks
      PROVE  /\ FmuTypeOK' /\ FmuLinesExact'
             /\ \A c \in Banks : KeptOrSpent(c)
  BY <1>b DEF FmuTypeOK, FmuLinesExact, KeptOrSpent
<1>c. FmuUnlock(b) => /\ unlocked' \in SUBSET Banks
                      /\ FmuEnforceKey => b \in unlocked /\ b \notin unlocked'
  BY DEF FmuUnlock, FmuTypeOK
<1>d. ASSUME NEW r \in Records, NEW w \in SUBSET StatusBits, FmuUnlock(b),
             status' = [status EXCEPT ![b][r] = w], ctlr' = ctlr, UpdateIrqs
      PROVE  /\ FmuTypeOK' /\ FmuLinesExact'
             /\ FmuEnforceKey => \A c \in Banks : KeptOrSpent(c)
  <2>1. /\ status' \in [Banks -> [Records -> SUBSET StatusBits]]
        /\ \A c \in Banks \ {b} : status'[c] = status[c]
    BY <1>d, OneWord DEF FmuTypeOK
  <2>2. \A c \in Banks \ {b} : KeptOrSpent(c)
    BY <1>d, <2>1 DEF KeptOrSpent
  <2>3. FmuEnforceKey => KeptOrSpent(b)
    BY <1>c, <1>d DEF KeptOrSpent
  <2>4. FmuTypeOK'
    BY <1>c, <1>d, <2>1, LinesType DEF FmuTypeOK
  <2> QED
    BY <1>d, <2>2, <2>3, <2>4 DEF FmuLinesExact, UpdateIrqs
<1>1. CASE FmuWriteKey(b)
  <2>1. unlocked' \in SUBSET Banks
    BY <1>1 DEF FmuWriteKey, FmuTypeOK
  <2> QED
    BY <1>1, <1>a, <1>b, <2>1 DEF FmuWriteKey
<1>2. CASE FmuLockedWrite(b)
  <2>1. unlocked' \in SUBSET Banks
    BY <1>2 DEF FmuLockedWrite, FmuTypeOK
  <2> QED
    BY <1>2, <1>a, <2>1 DEF FmuLockedWrite
<1>3. CASE FmuWriteOther(b)
  BY <1>3, <1>b, <1>c DEF FmuWriteOther
<1>4. ASSUME NEW r \in Records, NEW v \in CtlrValues, WriteCtlr(b, r, v)
      PROVE  /\ FmuTypeOK' /\ FmuLinesExact'
             /\ FmuEnforceKey => \A c \in Banks : KeptOrSpent(c)
  <2>1. v \in SUBSET CtlrBits
    BY FmuAssumption
  <2>2. /\ ctlr' = [ctlr EXCEPT ![b][r] = v] /\ status' = status
        /\ UpdateIrqs /\ FmuUnlock(b)
    BY <1>4 DEF WriteCtlr
  <2>3. /\ ctlr' \in [Banks -> [Records -> SUBSET CtlrBits]]
        /\ \A c \in Banks \ {b} : ctlr'[c] = ctlr[c]
    BY <2>1, <2>2, OneWord DEF FmuTypeOK
  <2>4. \A c \in Banks \ {b} : KeptOrSpent(c)
    BY <2>2, <2>3 DEF KeptOrSpent
  <2>5. FmuEnforceKey => KeptOrSpent(b)
    BY <1>c, <2>2 DEF KeptOrSpent
  <2>6. FmuTypeOK'
    BY <1>c, <2>2, <2>3, LinesType DEF FmuTypeOK
  <2> QED
    BY <2>2, <2>4, <2>5, <2>6 DEF FmuLinesExact, UpdateIrqs
<1>5. ASSUME NEW r \in Records, NEW v \in StatusValues, WriteStatus(b, r, v)
      PROVE  /\ FmuTypeOK' /\ FmuLinesExact'
             /\ FmuEnforceKey => \A c \in Banks : KeptOrSpent(c)
  <2>1. ClearedStatus(status[b][r], v) \in SUBSET StatusBits
    BY FmuAssumption, WordTypes DEF FmuTypeOK
  <2> QED
    BY <1>5, <1>d, <2>1 DEF WriteStatus
<1>6. ASSUME NEW r \in Records, NEW ic \in BOOLEAN, NEW ie \in BOOLEAN,
             WriteImpdef(b, r, ic, ie)
      PROVE  /\ FmuTypeOK' /\ FmuLinesExact'
             /\ FmuEnforceKey => \A c \in Banks : KeptOrSpent(c)
  <2> DEFINE ed == "ED" \in ctlr[b][r]
  <2>1. InjectedStatus(status[b][r], r, ed, ic, ie) \in SUBSET StatusBits
    <3>1. ed \in BOOLEAN /\ status[b][r] \in SUBSET StatusBits
      BY DEF FmuTypeOK
    <3> QED
      BY <3>1, WordTypes
  <2>2. /\ status' = [status EXCEPT ![b][r] =
                        InjectedStatus(status[b][r], r, ed, ic, ie)]
        /\ ctlr' = ctlr /\ UpdateIrqs /\ FmuUnlock(b)
    BY <1>6 DEF WriteImpdef
  <2> HIDE DEF ed
  <2> QED
    BY <1>d, <2>1, <2>2
<1> QED
  BY <1>1, <1>2, <1>3, <1>4, <1>5, <1>6

-----------------------------------------------------------------------------
(* The fault path                                                          *)

\* The four state properties together are inductive: the output and the
\* record of the SSU are needed to follow an emission.
FaultInv == TypeOK /\ FmuLinesExact /\ SafetyOutputExact /\ ErrorHasRecord

LEMMA FaultInit == Init => FaultInv
<1> SUFFICES ASSUME Init PROVE FaultInv
  OBVIOUS
<1> USE DEF Init
<1>1. FmuTypeOK
  BY FmuAssumption DEF FmuInit, FmuTypeOK
<1>2. FmuLinesExact
  BY FmuAssumption DEF FmuInit, FmuLinesExact, CriticalFault, NonCriticalFault
<1>3. ssu \in Ssus
  BY DEF SsuInit, Ssus, SysStates, ErrBits, ImpdefBits
<1>4. ssu.sys \notin ErrorStates /\ ssu.out = FALSE
  BY DEF SsuInit, ErrorStates
<1>5. SafetyOutputExact /\ ErrorHasRecord
  <2> HIDE DEF Init
  <2>1. (ssu.sys \in ErrorStates) = FALSE
    BY <1>4
  <2>2. ssu.out = (ssu.sys \in ErrorStates)
    BY <1>4, <2>1
  <2> QED
    BY <1>4, <2>2 DEF SafetyOutputExact, ErrorHasRecord
<1> QED
  BY <1>1, <1>2, <1>3, <1>5 DEF FaultInv, TypeOK

\* A write to the FMU with the emission it causes.
LEMMA FmuStep ==
  ASSUME FaultInv, FmuWrite, Emit
  PROVE  FaultInv'
<1>1. FmuTypeOK' /\ FmuLinesExact'
  BY FmuWriteFacts DEF FaultInv, TypeOK
<1>2. Follows(ssu, ssu')
  BY <1>1, EmitFacts DEF FaultInv
<1>3. ssu' \in Ssus
  BY <1>2 DEF Follows
<1>4. ssu' = ssu => SafetyOutputExact' /\ ErrorHasRecord'
  BY DEF FaultInv, SafetyOutputExact, ErrorHasRecord
<1>5. InError(ssu') => SafetyOutputExact' /\ ErrorHasRecord'
  BY DEF InError, SafetyOutputExact, ErrorHasRecord
<1>6. SafetyOutputExact' /\ ErrorHasRecord'
  BY <1>2, <1>4, <1>5 DEF Follows, FaultInv
<1> QED
  BY <1>1, <1>3, <1>6 DEF FaultInv, TypeOK

LEMMA FaultStep == FaultInv /\ [Next]_vars => FaultInv'
<1> SUFFICES ASSUME FaultInv, [Next]_vars PROVE FaultInv'
  OBVIOUS
<1>1. CASE FmuWrite /\ Emit
  BY <1>1, FmuStep
<1>2. CASE SsuWrite /\ UNCHANGED fmuVars
  <2>1. ssu' \in Ssus /\ SafetyOutputExact' /\ ErrorHasRecord'
    BY <1>2, SsuWriteFacts DEF FaultInv, TypeOK
  <2>2. FmuTypeOK' /\ FmuLinesExact'
    BY <1>2 DEF FaultInv, TypeOK, fmuVars, FmuTypeOK, FmuLinesExact
  <2> QED
    BY <2>1, <2>2 DEF FaultInv, TypeOK
<1>3. CASE UNCHANGED vars
  BY <1>3 DEF vars, fmuVars, FaultInv, TypeOK, FmuTypeOK, FmuLinesExact,
              SafetyOutputExact, ErrorHasRecord
<1> QED
  BY <1>1, <1>2, <1>3 DEF Next

LEMMA FaultInvariant == Spec => []FaultInv
BY FaultInit, FaultStep, PTL DEF Spec

\* update_irqs: the FMU's lines always say whether some enabled record of
\* some bank is valid.
THEOREM FmuLinesAreExact == Spec => []FmuLinesExact
<1>1. FaultInv => FmuLinesExact
  BY DEF FaultInv
<1> QED
  BY <1>1, FaultInvariant, PTL

\* update_output: the safety output is high exactly in the error states.
THEOREM SafetyOutputIsExact == Spec => []SafetyOutputExact
<1>1. FaultInv => SafetyOutputExact
  BY DEF FaultInv
<1> QED
  BY <1>1, FaultInvariant, PTL

\* write_status and set_fault: an error state that software did not ask for
\* has a valid record.
THEOREM ErrorsHaveRecords == Spec => []ErrorHasRecord
<1>1. FaultInv => ErrorHasRecord
  BY DEF FaultInv
<1> QED
  BY <1>1, FaultInvariant, PTL

\* require_unlock of the FMU: a bank changes or forgets only by spending
\* its key.
THEOREM KeysAreSpent == Spec => OneKeyOneWrite
<1> DEFINE A == FmuEnforceKey =>
                  \A b \in Banks :
                    \/ /\ ctlr'[b] = ctlr[b]
                       /\ \A r \in Records : status[b][r] \subseteq status'[b][r]
                    \/ b \in unlocked /\ b \notin unlocked'
<1>1. FaultInv /\ [Next]_vars => [A]_fmuVars
  <2> SUFFICES ASSUME FaultInv, [Next]_vars PROVE [A]_fmuVars
    OBVIOUS
  <2>1. CASE FmuWrite
    BY <2>1, FmuWriteFacts DEF FaultInv, TypeOK, KeptOrSpent
  <2>2. CASE UNCHANGED fmuVars
    BY <2>2
  <2> QED
    BY <2>1, <2>2 DEF Next, vars
<1> QED
  BY <1>1, FaultInvariant, PTL DEF Spec, OneKeyOneWrite

\* emit_irqs and set_fault: a rising line whose fault is accepted puts the
\* SSU into an error state, recorded and reported, in the same step.
THEOREM FaultsReachTheSsu == Spec => FaultReachesSsu
<1> DEFINE A == (\/ ~criticalLine /\ criticalLine' /\ Accepts(ssu, TRUE)
                 \/ ~nonCriticalLine /\ nonCriticalLine' /\ Accepts(ssu, FALSE))
                => ssu'.sys \in ErrorStates /\ "V" \in ssu'.err /\ ssu'.out
<1>1. FaultInv /\ [Next]_vars => [A]_vars
  <2> SUFFICES ASSUME FaultInv, Next PROVE A
    OBVIOUS
  <2>1. CASE FmuWrite /\ Emit
    <3>1. FmuTypeOK'
      BY <2>1, FmuWriteFacts DEF FaultInv, TypeOK
    <3> QED
      BY <2>1, <3>1, EmitFacts DEF FaultInv, InError
  <2>2. CASE UNCHANGED fmuVars
    <3>1. criticalLine' = criticalLine /\ nonCriticalLine' = nonCriticalLine
      BY <2>2 DEF fmuVars
    <3> QED
      BY <3>1
  <2> QED
    BY <2>1, <2>2 DEF Next
<1> QED
  BY <1>1, FaultInvariant, PTL DEF Spec, FaultReachesSsu

\* Only a write to the SSU that spends its key ends an error state.
THEOREM ErrorsAreHeld == Spec => ErrorIsHeld
<1> DEFINE A == (SsuEnforceKey /\ ssu.sys \in ErrorStates /\ ssu'.sys \notin ErrorStates)
                => ssu.unlocked /\ ~ssu'.unlocked
<1>1. FaultInv /\ [Next]_vars => [A]_vars
  <2> SUFFICES ASSUME FaultInv, Next PROVE A
    OBVIOUS
  <2>1. CASE FmuWrite /\ Emit
    <3>1. FmuTypeOK'
      BY <2>1, FmuWriteFacts DEF FaultInv, TypeOK
    <3>2. ssu' = ssu \/ InError(ssu')
      BY <2>1, <3>1, EmitFacts DEF FaultInv, Follows
    <3> QED
      BY <3>2 DEF InError
  <2>2. CASE SsuWrite
    BY <2>2, SsuWriteFacts DEF FaultInv, TypeOK
  <2> QED
    BY <2>1, <2>2 DEF Next
<1> QED
  BY <1>1, FaultInvariant, PTL DEF Spec, ErrorIsHeld
=============================================================================
