------------------------- MODULE MCPromptScheduler -------------------------
(***************************************************************************)
(* Instances of the prompt scheduler for TLC.  A scenario names the calls  *)
(* and messages of one small world; a run covers several scenarios.        *)
(***************************************************************************)
EXTENDS PromptScheduler

CONSTANTS p1, p2, p3, e1, b1, s1

Nothing == [cancel |-> 0, refresh |-> 0, bash |-> 0, queue |-> 0,
            calls |-> {}, may |-> {}]

\* A queued and a send-now prompt race a cancellation while Pi takes its
\* time between reading a prompt and starting it.
SteerAndCancel == [Nothing EXCEPT !.cancel = 1, !.calls = {p1, p2},
                                  !.may = {"gap", "slow"}]

\* A prompt, a steering extension message and a cancellation while Pi exits.
ExtensionAndExit == [Nothing EXCEPT !.cancel = 1, !.calls = {p1, e1},
                                    !.may = {"exit"}]

\* A direct Bash command with a cancellation and an exit, and one with an
\* extension message.
BashAndCancel == [Nothing EXCEPT !.cancel = 1, !.bash = 1, !.calls = {p1},
                                 !.may = {"exit"}]
BashAndExtension == [Nothing EXCEPT !.bash = 1, !.calls = {p1, e1}]

\* Refused prompts and failing plan-mode files, with an anonymous prompt, a
\* bridge command and a pager operation on a row.
RefusalsAndFaults == [Nothing EXCEPT !.queue = 1, !.calls = {p1, p3, b1},
                                     !.may = {"reject", "plan"}]

SafetyScenarios == {SteerAndCancel, ExtensionAndExit, BashAndCancel,
                    BashAndExtension, RefusalsAndFaults}

\* Two prompts and a cancellation.
PlainCancel == [Nothing EXCEPT !.cancel = 1, !.calls = {p1, p2}]

\* Two prompts under pager operations on the rows and a bootstrap reload.
RowsAndReload == [Nothing EXCEPT !.refresh = 1, !.queue = 2,
                                 !.calls = {p1, p2}]

\* A queued prompt, and a cancellation, while Pi exits.
QueueAndExit == [Nothing EXCEPT !.calls = {p1, p2}, !.may = {"exit"}]
CancelAndExit == [Nothing EXCEPT !.cancel = 1, !.calls = {p1},
                                 !.may = {"exit"}]

LiveScenarios == {PlainCancel, RowsAndReload, QueueAndExit,
                  CancelAndExit}

\* A prompt that arrives during a direct Bash command.
PromptDuringBash == {[Nothing EXCEPT !.bash = 1, !.calls = {p1}]}

\* Two prompts, one after the other.
TwoPrompts == {[Nothing EXCEPT !.calls = {p1, p2}]}
============================================================================
