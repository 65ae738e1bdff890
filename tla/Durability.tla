----------------------------- MODULE Durability -----------------------------
(***************************************************************************)
(* What survives a restart of Le Grinder.                                  *)
(*                                                                         *)
(* The state file (state::save: a temporary file, then a rename) and the   *)
(* ledger (state::append_window: a row, then its newline) are written one  *)
(* after the other at every settlement, their errors are only logged, and  *)
(* the open position, the last window played, the resume button and the    *)
(* reconciliation flag live in memory only.  The process may die between   *)
(* any two of these writes; systemd (or watchdog.sh) boots it again.       *)
(*                                                                         *)
(* Of the accounting only the count of windows and the halt are kept: the  *)
(* amounts are those of Settlement.tla.                                    *)
(***************************************************************************)
EXTENDS Integers, Sequences, FiniteSets, Functions

CONSTANTS
    Live,          \* cfg.mode = "live"
    MaxWindow,     \* bound: 5-minute windows that begin
    MaxCrashes,    \* bound: deaths of the process
    MaxFaults,     \* bound: file operations that fail
    MaxPresses,    \* bound: presses of the dashboard's resume button
    EarlyPresses   \* whether the button may be pressed when nothing is halted

ASSUME DurabilityAssumption ==
    /\ Live \in BOOLEAN /\ EarlyPresses \in BOOLEAN
    /\ MaxWindow \in Nat \ {0} /\ {MaxCrashes, MaxFaults, MaxPresses} \subseteq Nat

Windows == 1 .. MaxWindow
None    == 0                       \* no window: last_played_window at boot, Scanning
Fresh   == [windows_played |-> 0, halted |-> FALSE]   \* GrinderState::fresh
NoFile  == [windows_played |-> 0, halted |-> FALSE, missing |-> TRUE]

VARIABLES
    window,         \* the window the clock is in
    (* the process *)
    up,
    pc,             \* where the running handler is
    after,          \* where it goes once the state is saved
    st,             \* GrinderState in memory
    open,           \* window of Phase::InPosition, None when scanning
    last_played,    \* last_played_window
    row,            \* the ledger row being written
    resume_flag,    \* set by POST /resume
    reconcile_halt, \* set by a reconciliation task
    reconciling,    \* windows whose official verdict will contradict the one booked
    (* the disk *)
    disk,           \* grinder_state.json
    tmp,            \* grinder_state.json.tmp
    ledger,         \* lines of grinder_windows.jsonl, each the whole rows on it
    torn,           \* lines of the ledger with part of a row on them
    newline,        \* the last line of the ledger is ended
    (* history *)
    entries,        \* entries made in each window
    restarts,       \* deaths of the process in each window
    faults, presses,
    owed,           \* a halt was raised and no human has acted since
    hole,           \* that halt never reached the disk, or was lifted in advance
    unread          \* a boot could not read the state file

process == <<up, pc, after, st, open, last_played, row,
             resume_flag, reconcile_halt, reconciling>>
files   == <<disk, tmp, ledger, torn, newline>>
history == <<entries, restarts, faults, presses, owed, hole, unread>>
vars    == <<window, process, files, history>>

Sum(f)  == FoldFunction(+, 0, f)
Crashes == Sum(restarts)

(* A file operation fails; its error is logged and nothing else.            *)
Fault == faults < MaxFaults /\ faults' = faults + 1

Init ==
    /\ window = 1
    /\ up = TRUE /\ pc = "idle" /\ after = "idle"
    /\ st = Fresh /\ open = None /\ last_played = None /\ row = None
    /\ resume_flag = FALSE /\ reconcile_halt = FALSE /\ reconciling = {}
    /\ disk = NoFile /\ tmp = NoFile /\ ledger = <<>> /\ torn = {} /\ newline = TRUE
    /\ entries = [w \in Windows |-> 0] /\ restarts = [w \in Windows |-> 0]
    /\ faults = 0 /\ presses = 0
    /\ owed = FALSE /\ hole = FALSE /\ unread = FALSE

-----------------------------------------------------------------------------
(* try_enter()                                                              *)

(* The halt is lifted by the button, saved, and the attempt goes on.        *)
Resume ==
    /\ up /\ pc = "idle" /\ open = None
    /\ st.halted /\ resume_flag
    /\ resume_flag' = FALSE
    /\ st' = [st EXCEPT !.halted = FALSE]
    /\ pc' = "save" /\ after' = "enter"
    /\ UNCHANGED <<window, up, open, last_played, row, reconcile_halt, reconciling,
                   files, history>>

Bug_Enter ==
    /\ up /\ open = None
    /\ pc = "enter" \/ (pc = "idle" /\ ~st.halted)
    /\ window # last_played
    /\ open' = window
    /\ entries' = [entries EXCEPT ![window] = @ + 1]
    /\ pc' = "idle"
    /\ UNCHANGED <<window, up, after, st, last_played, row, resume_flag, reconcile_halt,
                   reconciling, files, restarts, faults, presses, owed, hole, unread>>
(* Nothing is written at an entry: the position is in memory only.          *)
Enter ==
    /\ up /\ open = None
    /\ pc = "enter" \/ (pc = "idle" /\ ~st.halted)
    /\ window # last_played
    /\ open' = window
    /\ last_played' = window
    /\ entries' = [entries EXCEPT ![window] = @ + 1]
    /\ pc' = "idle"
    /\ UNCHANGED <<window, up, after, st, row, resume_flag, reconcile_halt,
                   reconciling, files, restarts, faults, presses, owed, hole, unread>>

(* The market's conditions are not met after a resume.                      *)
NoEntry ==
    /\ up /\ pc = "enter"
    /\ pc' = "idle"
    /\ UNCHANGED <<window, up, after, st, open, last_played, row, resume_flag,
                   reconcile_halt, reconciling, files, history>>

-----------------------------------------------------------------------------
(* A halt is raised in memory; a press of the button that nothing consumed  *)
(* yet lifts it in advance.                                                 *)
Raised ==
    /\ owed' = TRUE
    /\ hole' = resume_flag

Bug_Settle ==
    /\ up /\ pc = "idle" /\ open # None
    /\ \E halting, diverging \in BOOLEAN :
          /\ st' = [windows_played |-> st.windows_played + 1,
                    halted         |-> st.halted \/ halting]
          /\ reconciling' = IF diverging THEN reconciling \cup {open} ELSE reconciling
          /\ IF halting THEN Raised /\ pc' = "save"
             ELSE UNCHANGED <<owed, hole>> /\ pc' = "append"
    /\ row' = open
    /\ after' = "idle"
    /\ UNCHANGED <<window, up, open, last_played, resume_flag, reconcile_halt,
                   files, entries, restarts, faults, presses, unread>>
(* settle(): the memory first; the wipe of a total loss raises the halt.  A *)
(* resolution also starts the task that will compare it to the official     *)
(* verdict.                                                                 *)
Settle ==
    /\ up /\ pc = "idle" /\ open # None
    /\ \E halting, diverging \in BOOLEAN :
          /\ st' = [windows_played |-> st.windows_played + 1,
                    halted         |-> st.halted \/ halting]
          /\ reconciling' = IF diverging THEN reconciling \cup {open} ELSE reconciling
          /\ IF halting THEN Raised ELSE UNCHANGED <<owed, hole>>
    /\ row' = open
    /\ pc' = "append" /\ after' = "idle"
    /\ UNCHANGED <<window, up, open, last_played, resume_flag, reconcile_halt,
                   files, entries, restarts, faults, presses, unread>>

(* The write of a row is cut short: part of it ends the file.               *)
Part ==
    /\ ledger' = IF newline THEN Append(ledger, <<>>) ELSE ledger
    /\ torn' = torn \cup {Len(ledger')}
    /\ newline' = FALSE

(* append_window(): the row goes at the end of the file, on the last line   *)
(* when that line was never ended.  A write that fails may leave part of it.*)
AppendRow ==
    /\ up /\ pc = "append"
    /\ \/ /\ ledger' = IF newline THEN Append(ledger, <<row>>)
                       ELSE [ledger EXCEPT ![Len(ledger)] = Append(@, row)]
          /\ newline' = FALSE
          /\ pc' = "newline"
          /\ UNCHANGED <<torn, faults>>
       \/ /\ Fault
          /\ pc' = "save"
          /\ Part \/ UNCHANGED <<ledger, torn, newline>>
    /\ UNCHANGED <<window, up, after, st, open, last_played, row, resume_flag,
                   reconcile_halt, reconciling, disk, tmp,
                   entries, restarts, presses, owed, hole, unread>>

Bug_EndLine ==
    /\ up /\ pc = "newline"
    /\ pc' = "save"
    /\ UNCHANGED <<window, up, after, st, open, last_played, row, resume_flag,
                   reconcile_halt, reconciling, files, history>>
(* ... and a second write ends the line.                                    *)
EndLine ==
    /\ up /\ pc = "newline"
    /\ \/ newline' = TRUE /\ UNCHANGED faults
       \/ Fault /\ UNCHANGED newline
    /\ pc' = "save"
    /\ UNCHANGED <<window, up, after, st, open, last_played, row, resume_flag,
                   reconcile_halt, reconciling, disk, tmp, ledger, torn,
                   entries, restarts, presses, owed, hole, unread>>

Bug_Return ==
    /\ pc' = after /\ after' = "idle"
    /\ open' = IF row # None THEN None ELSE open
    /\ UNCHANGED row
(* The handler goes on after a save; a settled position is closed.          *)
Return ==
    /\ pc' = after /\ after' = "idle"
    /\ row' = None
    /\ open' = IF row # None THEN None ELSE open

Bug_SaveTmp ==
    /\ up /\ pc = "save"
    /\ \/ /\ tmp' = IF tmp = NoFile THEN st ELSE tmp
          /\ pc' = "rename"
          /\ UNCHANGED <<after, row, open, faults>>
       \/ Fault /\ Return /\ UNCHANGED tmp
    /\ UNCHANGED <<window, up, st, last_played, resume_flag, reconcile_halt,
                   reconciling, disk, ledger, torn, newline,
                   entries, restarts, presses, owed, hole, unread>>
(* save(): the temporary file ...                                           *)
SaveTmp ==
    /\ up /\ pc = "save"
    /\ \/ /\ tmp' = st
          /\ pc' = "rename"
          /\ UNCHANGED <<after, row, open, faults>>
       \/ Fault /\ Return /\ UNCHANGED tmp
    /\ UNCHANGED <<window, up, st, last_played, resume_flag, reconcile_halt,
                   reconciling, disk, ledger, torn, newline,
                   entries, restarts, presses, owed, hole, unread>>

(* ... takes the place of the state file.                                   *)
Rename ==
    /\ up /\ pc = "rename"
    /\ \/ disk' = tmp /\ UNCHANGED faults
       \/ Fault /\ UNCHANGED disk
    /\ Return
    /\ UNCHANGED <<window, up, st, last_played, resume_flag, reconcile_halt,
                   reconciling, tmp, ledger, torn, newline,
                   entries, restarts, presses, owed, hole, unread>>

-----------------------------------------------------------------------------
(* A reconciliation task (spawn_reconcile): the official verdict is out ... *)
Verdict ==
    /\ up
    /\ \E w \in reconciling : reconciling' = reconciling \ {w}
    /\ reconcile_halt' = TRUE
    /\ UNCHANGED <<window, up, pc, after, st, open, last_played, row, resume_flag,
                   files, history>>

(* ... or is still not when the task gives up.                              *)
VerdictTimeout ==
    /\ up
    /\ \E w \in reconciling : reconciling' = reconciling \ {w}
    /\ UNCHANGED <<window, up, pc, after, st, open, last_played, row, resume_flag,
                   reconcile_halt, files, history>>

Bug_ReconcileHalt ==
    /\ up /\ pc = "idle" /\ reconcile_halt
    /\ reconcile_halt' = FALSE
    /\ IF Live
       THEN st' = [st EXCEPT !.halted = TRUE] /\ Raised
       ELSE UNCHANGED <<st, owed, hole>>
    /\ UNCHANGED <<window, up, pc, after, open, last_played, row, resume_flag, reconciling,
                   files, entries, restarts, faults, presses, unread>>
(* housekeeping(): live halts on the flag, paper only logs it.              *)
ReconcileHalt ==
    /\ up /\ pc = "idle" /\ reconcile_halt
    /\ reconcile_halt' = FALSE
    /\ IF Live
       THEN st' = [st EXCEPT !.halted = TRUE] /\ Raised /\ pc' = "save"
       ELSE UNCHANGED <<st, owed, hole, pc>>
    /\ after' = "idle"
    /\ UNCHANGED <<window, up, open, last_played, row, resume_flag, reconciling,
                   files, entries, restarts, faults, presses, unread>>

-----------------------------------------------------------------------------
DiskHalted == disk # NoFile /\ disk.halted

(* The process dies, or is stopped: nothing is flushed, and a row that was  *)
(* being written may be there in part.                                      *)
Crash ==
    /\ up
    /\ Crashes < MaxCrashes
    /\ restarts' = [restarts EXCEPT ![window] = @ + 1]
    /\ up' = FALSE
    /\ pc' = "idle" /\ after' = "idle"
    /\ st' = Fresh /\ open' = None /\ last_played' = None /\ row' = None
    /\ resume_flag' = FALSE /\ reconcile_halt' = FALSE /\ reconciling' = {}
    /\ hole' = (owed /\ ~DiskHalted)
    /\ (pc = "append" /\ Part) \/ UNCHANGED <<ledger, torn, newline>>
    /\ UNCHANGED <<window, disk, tmp, entries, faults, presses, owed, unread>>

Bug_Loaded == IF disk = NoFile THEN Fresh ELSE [disk EXCEPT !.halted = FALSE]
(* load(): the state file, or a fresh state when there is none.             *)
Loaded == IF disk = NoFile THEN Fresh ELSE disk

(* The supervisor boots it again.  A state file that exists but cannot be   *)
(* read is taken for one that does not exist.                               *)
Boot ==
    /\ ~up
    /\ up' = TRUE
    /\ \/ /\ st' = Loaded
          /\ UNCHANGED <<faults, unread, hole>>
       \/ /\ disk # NoFile
          /\ Fault
          /\ st' = Fresh
          /\ unread' = TRUE
          /\ hole' = owed
    /\ UNCHANGED <<window, pc, after, open, last_played, row, resume_flag,
                   reconcile_halt, reconciling, files,
                   entries, restarts, presses, owed>>

(* A human presses the button (POST /resume), whatever the state ...        *)
PressResume ==
    /\ up
    /\ presses < MaxPresses
    /\ EarlyPresses \/ st.halted
    /\ presses' = presses + 1
    /\ resume_flag' = TRUE
    /\ owed' = FALSE /\ hole' = FALSE
    /\ UNCHANGED <<window, up, pc, after, st, open, last_played, row,
                   reconcile_halt, reconciling, files, entries, restarts, faults, unread>>

(* ... or clears the flag in the state file while the process is down.      *)
EditState ==
    /\ ~up
    /\ DiskHalted
    /\ disk' = [disk EXCEPT !.halted = FALSE]
    /\ owed' = FALSE /\ hole' = FALSE
    /\ UNCHANGED <<window, process, tmp, ledger, torn, newline,
                   entries, restarts, faults, presses, unread>>

(* The clock passes into the next window, wherever the process is.          *)
NextWindow ==
    /\ window < MaxWindow
    /\ window' = window + 1
    /\ UNCHANGED <<process, files, history>>

Handlers == \/ Resume \/ Enter \/ NoEntry
            \/ Settle \/ AppendRow \/ EndLine \/ SaveTmp \/ Rename
            \/ ReconcileHalt
Outside  == \/ Verdict \/ VerdictTimeout
            \/ Crash \/ Boot \/ PressResume \/ EditState \/ NextWindow
Next == Handlers \/ Outside

Spec == Init /\ [][Next]_vars

(* The handlers are the iterations of one loop, the supervisor boots what   *)
(* died; the check of the reconciliation flag opens every iteration, so it  *)
(* is reached however often other handlers run in between.                  *)
Fairness == /\ WF_vars(Settle) /\ WF_vars(AppendRow) /\ WF_vars(EndLine)
            /\ WF_vars(SaveTmp) /\ WF_vars(Rename) /\ WF_vars(NoEntry)
            /\ SF_vars(ReconcileHalt)
            /\ WF_vars(Boot)

FairSpec == Spec /\ Fairness

-----------------------------------------------------------------------------
States == [windows_played : Nat, halted : BOOLEAN]

TypeOK ==
    /\ window \in Windows
    /\ up \in BOOLEAN
    /\ pc \in {"idle", "append", "newline", "save", "rename", "enter"}
    /\ after \in {"idle", "enter"}
    /\ st \in States
    /\ {open, last_played, row} \subseteq Windows \cup {None}
    /\ row # None => row = open
    /\ resume_flag \in BOOLEAN /\ reconcile_halt \in BOOLEAN
    /\ reconciling \subseteq Windows
    /\ disk \in States \cup {NoFile} /\ tmp \in States \cup {NoFile}
    /\ ledger \in Seq(Seq(Windows)) /\ torn \subseteq DOMAIN ledger
    /\ newline \in BOOLEAN
    /\ entries \in [Windows -> Nat] /\ restarts \in [Windows -> Nat]
    /\ faults \in 0 .. MaxFaults /\ presses \in 0 .. MaxPresses
    /\ owed \in BOOLEAN /\ hole \in BOOLEAN /\ unread \in BOOLEAN

(* The whole rows of the ledger.                                            *)
Rows == Sum([i \in DOMAIN ledger |-> Len(ledger[i])])

(* The windows the state file counts.                                       *)
Saved == IF disk = NoFile THEN 0 ELSE disk.windows_played

(* A position whose row is still to be written.                             *)
Unwritten == IF open # None /\ (row = None \/ pc = "append") THEN 1 ELSE 0

Entered == \E w \in Windows : entries'[w] > entries[w]

(* A halt stands until a human acts: whatever dies and fails, a window is   *)
(* entered without one only when the halt never reached the disk before a   *)
(* death, was lifted by a press made before it, or was in a state file the  *)
(* boot could not read (halted, settle(), load(), resume_flag).             *)
HaltsNeedAHuman == [][Entered /\ owed => hole]_vars

(* A window is entered again only after a death of the process within it:   *)
(* last_played_window is all that stands in the way, and it is not saved.   *)
OneEntryPerLife == \A w \in Windows : entries[w] <= 1 + restarts[w]

(* No entry goes untold: but for deaths and failed writes, one each at      *)
(* most, every entry is the open position or has exactly one ledger row.    *)
EntriesAreTold ==
    LET untold == Sum(entries) - Rows - Unwritten
    IN  untold >= 0 /\ untold <= Crashes + faults

(* The two files drift apart by at most a window per death or failed write: *)
(* the state on disk counts no window the ledger cannot show, but for the   *)
(* failed appends, and misses at most those a death or a failed save cost   *)
(* it, beyond the settlement under way.                                     *)
FilesAgree ==
    ~unread => /\ Saved <= Rows + faults
               /\ Rows <= Saved + Crashes + faults + (IF row # None THEN 1 ELSE 0)

(* A death or a fault within a row, or between it and its newline, joins    *)
(* what is there of that row to the next one, and the line that holds both  *)
(* cannot be read; every other row stays readable.                          *)
LedgerReadable ==
    Cardinality({i \in DOMAIN ledger : Len(ledger[i]) # 1 \/ i \in torn}) <= Crashes + faults

(* Live: the divergence a reconciliation reports ends in a saved halt,      *)
(* unless the process dies or the writing fails.                            *)
DivergenceHalts ==
    (Live /\ reconcile_halt) ~> (DiskHalted \/ ~up \/ faults > 0)

(* state.rs: the halt survives restarts.  Asked of the boots at which the   *)
(* ledger holds, each on an ended line, the row of every entry made: that   *)
(* of the settlement that raised the halt included.                         *)
HaltSurvivesRestarts ==
    [][~up /\ up' /\ owed /\ Sum(entries) = Rows /\ newline => st'.halted]_vars

(* grinder.rs: one entry per window.                                        *)
OneEntryPerWindow == \A w \in Windows : entries[w] <= 1
=============================================================================
