----------------------------- MODULE EventLoop -----------------------------
(***************************************************************************)
(* libsponge/util/eventloop.{hh,cc}: one call of wait_next_event.  It has  *)
(* two halves with poll(2) between them, where others run: SetupRule       *)
(* asks a rule what it is interested in, and Outcome says what is          *)
(* done for each rule with what poll reported, on the strength of an       *)
(* interest that may be out of date by then.                               *)
(*                                                                         *)
(* A rule is a record of its name, its file descriptor and its direction;  *)
(* _rules is a sequence of rules.  w is the state its callbacks work on.   *)
(* Two exceptions are left out.  POLLERR and POLLNVAL are not reported for *)
(* a socket pair, an unconnected UDP socket or a TUN device.  And every    *)
(* callback of this program reads or writes its descriptor, or stops being *)
(* interested, so that no busy wait is detected.                           *)
(***************************************************************************)
EXTENDS Sequences, SequencesExt

Rule(name, fd, direction) == [name |-> name, fd |-> fd, direction |-> direction]

\* The first loop: a rule to read from a descriptor at its end, or a rule on a
\* closed descriptor, is cancelled; any other is polled if it is interested.
\* cancel() may change what the rules after it are interested in.
SetupRule(acc, r, gone, interested, cancelled) ==
    IF gone THEN [acc EXCEPT !.w = cancelled]
    ELSE [acc EXCEPT !.rules = Append(@, r), !.asked = IF interested THEN @ \cup {r} ELSE @]

SetupStart(w) == [w |-> w, rules |-> <<>>, asked |-> {}]

\* poll(2) returns for what was asked of a descriptor, and for a hangup even
\* where nothing was asked.  revents[fd] is what is true of a descriptor.
Awaited(r, asked) == {"hup"} \cup (IF r \in asked THEN {r.direction} ELSE {})
PollReturns(rules, asked, revents) ==
    \E i \in DOMAIN rules : revents[rules[i].fd] \cap Awaited(rules[i], asked) # {}

\* Wrong variant: a hangup cancels the rule even if there is something to read.
Outcome_hup_first(r, asked, revents) ==
    IF r \in asked /\ "hup" \in revents THEN "cancel"
    ELSE IF r \in asked /\ r.direction \in revents THEN "callback" ELSE "skip"

\* The second loop, for one rule: a hangup counts only if nothing else is ready.
Outcome(r, asked, revents) ==
    IF r \in asked /\ r.direction \in revents THEN "callback"
    ELSE IF r \in asked /\ "hup" \in revents THEN "cancel" ELSE "skip"

\* What is left to do for the rules that something is done for.
Todo(rules, asked, revents) ==
    SelectSeq([i \in DOMAIN rules |->
                  [rule |-> rules[i], what |-> Outcome(rules[i], asked, revents[rules[i].fd])]],
              LAMBDA t : t.what # "skip")

EraseRule(rules, r) == SelectSeq(rules, LAMBDA q : q # r)
=============================================================================
