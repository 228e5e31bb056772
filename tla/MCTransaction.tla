----------------------------- MODULE MCTransaction -----------------------------
(***************************************************************************)
(* Instances of Transaction: a system package with a regular file and a    *)
(* synthetic package, of which anything may fail, and two system packages  *)
(* of which nothing does, so that rollbacks are undisturbed.               *)
(***************************************************************************)
EXTENDS Transaction

CONSTANTS tool, conf, synth,   \* packages
          mine,                \* what a user puts into a file
          Parts                \* what runs

VARIABLE part

\* The system package and the synthetic one, of which anything may fail.
MCName      == {conf, synth}
MCLink      == {}
MCVersion   == {1, 2}
MCAvailable == MCName \X MCVersion
MCEdit      == {mine}
MCSynthetic == {synth}
MCInitial   == [MCName -> {0, 1}]
MCFailures  == {"prepare", "system", "synthetic", "save", "crash"}

\* The second version of the tool cannot be had any more.
Calm == INSTANCE Transaction WITH
  Name <- {tool, conf}, Link <- {}, Version <- {1, 2},
  Available <- {<<tool, 1>>, <<conf, 1>>, <<conf, 2>>},
  Edit <- {mine}, Synthetic <- {}, Initial <- [{tool, conf} -> {0, 1}],
  Failures <- {}, MaxTime <- 2, MaxTransactions <- 2

ASSUME PartsAssumption ==
  /\ TransactionAssumption /\ Calm!TransactionAssumption
  /\ JournalAssumption /\ Calm!JournalAssumption

MCInit ==
  /\ part \in Parts
  /\ \/ part = "failing" /\ Init
     \/ part = "calm" /\ Calm!Init

MCNext ==
  \/ part = "failing" /\ Next /\ UNCHANGED part
  \/ part = "calm" /\ Calm!Next /\ UNCHANGED part

MCSpec == MCInit /\ [][MCNext]_<<part, vars>>

-----------------------------------------------------------------------------
\* Everything the journal says has happened, whatever failed; the copies of changed files
\* that go with it are there, unless the program was killed in between or two transactions
\* shared a second; and saving is enabled again (rc_rollback_info_save,
\* rc_rollback_info_discard, rc_world_multi_transact_fn).
JournalIsTrue ==
  part = "failing" =>
    TypeOK /\ EntriesHappened /\ CopiesAreThere /\ EnabledAgain

\* The actions for an earlier time lead back to what was installed then, and the files that
\* go with it are restored as they were (rc_rollback_get_actions,
\* rc_rollback_restore_files).
LeadsBack == part = "calm" => Calm!ActionsLeadBack /\ Calm!FilesAreRestored

\* Regular files are copied back, as the change log says of rc_rollback_restore_files.
EditsAreRestored == part = "calm" => Calm!EditsComeBack
=============================================================================
