---------------------------- MODULE MetricsFile ----------------------------
(***************************************************************************)
(* The metrics snapshot a daemon leaves at metrics_output_path             *)
(* (write_metrics_snapshot, dldsr-node/src/daemon.rs).  All counters of    *)
(* NodeMetrics only grow, so one number stands for them: how many inputs   *)
(* of this process they account for.  Files outlive the process.           *)
(***************************************************************************)
EXTENDS Naturals

CONSTANTS MaxCounted,   \* bound on how far the counters of a process are followed
          MaxProcesses  \* bound on how often the daemon is started

ASSUME MetricsAssumption == MaxCounted \in Nat /\ MaxProcesses \in Nat \ {0}

VARIABLES process,  \* which of the successive processes of the daemon runs
          counted,  \* its counters
          tmp,      \* the file at path.with_extension("tmp")
          file,     \* the file at metrics_output_path
          written   \* the result of the last write_metrics_file: Ok or Err

metricsVars == <<process, counted, tmp, file, written>>

\* What a file may hold: nothing (it does not exist), part of a snapshot, or
\* the snapshot of a process.
Contents(s, p, c) == [state |-> s, process |-> p, counted |-> c]
Absent == Contents("absent", 0, 0)
Partial == Contents("partial", 0, 0)
metrics_snapshot == Contents("complete", process, counted)

Files == {Absent, Partial}
  \cup [state : {"complete"}, process : 1..MaxProcesses, counted : 0..MaxCounted]

MetricsInit ==
  /\ process = 1 /\ counted = 0
  /\ tmp = Absent /\ file = Absent
  /\ written = TRUE

\* A handler or a send counts.
Count ==
  /\ counted' \in {counted} \cup ({counted + 1} \cap 0..MaxCounted)
  /\ UNCHANGED <<process, tmp, file, written>>

CreateTmp_in_place ==
  /\ file' = Partial
  /\ UNCHANGED <<process, counted, tmp, written>>

\* tokio::fs::write creates or truncates the temporary file ...
CreateTmp ==
  /\ tmp' = Partial
  /\ UNCHANGED <<process, counted, file, written>>

\* ... and fills it.
FillTmp ==
  /\ tmp' = metrics_snapshot
  /\ UNCHANGED <<process, counted, file, written>>

Rename_resets ==
  /\ file' = tmp /\ tmp' = Absent
  /\ written' = TRUE /\ counted' = 0
  /\ UNCHANGED process

Rename ==
  /\ file' = tmp /\ tmp' = Absent
  /\ written' = TRUE
  /\ UNCHANGED <<process, counted>>

\* create_dir_all, write or rename fails; the files stay as they are.
WriteError ==
  /\ written' = FALSE
  /\ UNCHANGED <<process, counted, tmp, file>>

\* A new process starts with counters at zero; the files are what they were.
NewProcess ==
  /\ process < MaxProcesses
  /\ process' = process + 1 /\ counted' = 0 /\ written' = TRUE
  /\ UNCHANGED <<tmp, file>>
=============================================================================
