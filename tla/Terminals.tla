----------------------------- MODULE Terminals -----------------------------
(***************************************************************************)
(* Where the extension's run buttons send their commands                   *)
(* (vscode-ipu-asm/kernels.js sendToTerminal and isIdle, runs.js           *)
(* atPrompt): a terminal per kernel, reused whenever it is idle, which is  *)
(* asked of `ps' and of the shell integration while the shell, its         *)
(* programs, the user and the clock go on.                                 *)
(***************************************************************************)
EXTENDS Naturals, Sequences, FiniteSets

CONSTANTS
    Kernels,        \* the kernels commands are sent for
    MaxSends,       \* bound on the commands asked for
    Hosts           \* what the machine offers: subsets of {"ps", "slow"}

VARIABLES
    host,           \* `ps' is there; a shell may take longer than STARTING_MS to start
    asked,          \* the runs asked for and not sent, in order (`sending')
    sent,           \* how many were sent
    at,             \* the first of them: not begun, waiting for `ps', or for its answer
    prompt,         \* what `ps' said of the terminal's foreground
    terms,          \* every terminal made
    terminalOf      \* terminals: the one a kernel's commands go to (0: none)

tvars == << host, asked, sent, at, prompt, terms, terminalOf >>

Terms == DOMAIN terms
(* A terminal as it is made: its shell is starting and reads what is sent once it has started. *)
NewTerminal(integration) ==
    [closed |-> FALSE, integration |-> integration, shell |-> "starting", waiting |-> 0,
     ours |-> FALSE, busy |-> FALSE, fresh |-> FALSE]

Init ==
    /\ host \in Hosts
    /\ asked = << >> /\ sent = 0 /\ at = "no" /\ prompt = "none"
    /\ terms = << >>
    /\ terminalOf = [k \in Kernels |-> 0]

-----------------------------------------------------------------------------
(* The buttons. *)

Ask ==
    /\ sent + Len(asked) < MaxSends
    /\ \E k \in Kernels : asked' = Append(asked, k)
    /\ UNCHANGED << host, sent, at, prompt, terms, terminalOf >>

(* The command is sent: the terminal is busy, and looks idle until the shell starts it. *)
SendTo(ts, t) ==
    /\ terms' = [ts EXCEPT ![t].waiting = @ + 1, ![t].busy = TRUE, ![t].fresh = TRUE]
    /\ asked' = Tail(asked) /\ sent' = sent + 1
    /\ at' = "no" /\ prompt' = "none"
    /\ UNCHANGED host

SendToNew ==
    /\ \E integration \in BOOLEAN : SendTo(Append(terms, NewTerminal(integration)), Len(terms) + 1)
    /\ terminalOf' = [terminalOf EXCEPT ![Head(asked)] = Len(terms) + 1]

(* Runs are sent one at a time: the next one looks for its kernel's terminal, and at one that
   may be idle asks `ps' who holds it. *)
MayBeIdle(t) == IF t = 0 THEN FALSE ELSE ~terms[t].closed /\ ~terms[t].fresh

Send ==
    /\ at = "no" /\ asked # << >>
    /\ \/ ~MayBeIdle(terminalOf[Head(asked)]) /\ SendToNew
       \/ /\ MayBeIdle(terminalOf[Head(asked)])
          /\ at' = "ps"
          /\ UNCHANGED << host, asked, sent, prompt, terms, terminalOf >>

(* A shell that is starting holds its terminal's foreground too. *)
atPrompt ==
    /\ at = "ps"
    /\ LET t == terminalOf[Head(asked)] IN
       prompt' = IF "ps" \notin host \/ t = 0 THEN "unknown"
                 ELSE IF terms[t].shell # "program" THEN "yes" ELSE "no"
    /\ at' = "told"
    /\ UNCHANGED << host, asked, sent, terms, terminalOf >>

(* What `ps' said then, and what the shell integration has reported by now, decide.  The terminal
   is the one found before it was asked: one closed since is not idle. *)
isIdle(t) ==
    IF t = 0 THEN FALSE
    ELSE IF terms[t].integration /\ terms[t].shell # "starting" THEN ~terms[t].busy /\ prompt # "no"
    ELSE IF prompt = "unknown" THEN ~terms[t].busy ELSE prompt = "yes"

Told ==
    /\ at = "told"
    /\ LET t == terminalOf[Head(asked)] IN
       IF isIdle(t) THEN SendTo(terms, t) /\ UNCHANGED terminalOf ELSE SendToNew

-----------------------------------------------------------------------------
(* The shells, their programs, the clock and the user. *)

Shells(t, x) == terms' = [terms EXCEPT ![t] = x] /\ UNCHANGED << host, asked, sent, at, prompt, terminalOf >>

ShellStarts(t) ==
    /\ terms[t].shell = "starting"
    /\ Shells(t, [terms[t] EXCEPT !.shell = "prompt"])

StartProgram(t) ==
    /\ terms[t].shell = "prompt" /\ terms[t].waiting > 0
    /\ Shells(t, [terms[t] EXCEPT !.shell = "program", !.ours = TRUE, !.waiting = @ - 1])

(* The user's own program. *)
TypeProgram(t) ==
    /\ terms[t].shell = "prompt" /\ terms[t].waiting = 0
    /\ Shells(t, [terms[t] EXCEPT !.shell = "program", !.ours = FALSE])

EndProgram(t) ==
    /\ terms[t].shell = "program"
    /\ Shells(t, [terms[t] EXCEPT !.shell = "prompt", !.ours = FALSE,
                                  !.busy = IF terms[t].integration THEN FALSE ELSE @])

(* STARTING_MS have passed since a command was sent; a shell that is not slow has started it. *)
Elapse(t) ==
    /\ terms[t].fresh
    /\ "slow" \in host \/ terms[t].waiting = 0
    /\ Shells(t, [terms[t] EXCEPT !.fresh = FALSE])

CloseTerminal(t) ==
    /\ ~terms[t].closed
    /\ terms' = [terms EXCEPT ![t] = [NewTerminal(terms[t].integration) EXCEPT !.closed = TRUE, !.shell = "gone"]]
    /\ terminalOf' = [k \in Kernels |-> IF terminalOf[k] = t THEN 0 ELSE terminalOf[k]]
    /\ UNCHANGED << host, asked, sent, at, prompt >>

Next ==
    \/ Ask \/ Send \/ atPrompt \/ Told
    \/ \E t \in Terms : \/ ShellStarts(t) \/ StartProgram(t) \/ TypeProgram(t) \/ EndProgram(t)
                        \/ Elapse(t) \/ CloseTerminal(t)

Spec == Init /\ [][Next]_tvars

-----------------------------------------------------------------------------
Unfinished(t) == terms[t].waiting + (IF terms[t].ours THEN 1 ELSE 0)

(* A command goes to the shell, not to a program it would be typed into: whatever was asked for
   together and whatever the user runs in it, no terminal holds two unfinished commands of ours,
   where `ps' can tell and shells start in time (kernels.js sendToTerminal, isIdle). *)
OneCommandAtATime ==
    \A t \in Terms : host = {"ps"} => Unfinished(t) <= 1

(* "with shell integration our last command must also be reported finished (covering a shell
   still starting)". *)
IntegrationCoversStarting == \A t \in Terms : terms[t].integration => Unfinished(t) <= 1
=============================================================================
