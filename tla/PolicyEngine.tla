----------------------------- MODULE PolicyEngine -----------------------------
(***************************************************************************)
(* The low level policy of the Windows sandbox.  A caller writes rules: an *)
(* action and the conditions under which it applies, each on a string or a *)
(* number of the intercepted call (PolicyRule).  A condition is compiled   *)
(* into opcodes, a string pattern into one opcode for every fragment       *)
(* between its wildcards, and the rules of a service are laid out one      *)
(* after the other (LowLevelPolicy).  PolicyProcessor then runs over the   *)
(* opcodes: a false one skips to the next action, and the options of an    *)
(* opcode negate its value, make the group an OR or clear the context.     *)
(*                                                                         *)
(* A call has one string and one number here, so that an opcode does not   *)
(* name the parameter it reads, and the two have the types the rules were  *)
(* written for: EVAL_ERROR does not arise.  A number is the set of its     *)
(* flags.  The case of letters is left out.                                *)
(***************************************************************************)
EXTENDS Integers, Sequences, FiniteSets, FiniteSetsExt

CONSTANTS
  Patterns,       \* patterns a caller writes, sequences of characters
  Strings,        \* string parameters of the calls
  Flags,          \* flags of a number parameter
  Actions,        \* actions of a rule: ASK_BROKER, FAKE_SUCCESS...
  MaxConditions,  \* bound: conditions written in all
  MaxRules        \* bound: rules of the policy

ASSUME PatternsAssumption ==
  \A p \in Patterns \union Strings : p \in Seq({p[i] : i \in DOMAIN p})
ASSUME ActionsAssumption == {"none", "no_match", "error"} \cap Actions = {}

Numbers == SUBSET Flags
Calls == [str : Strings, num : Numbers]
NoCall == [str |-> <<>>, num |-> {}]

(* What a caller asked for: IF or IF_NOT (negate), and what to compare.      *)
StringMatches == [negate : BOOLEAN, kind : {"string"}, pattern : Patterns, num : {{}}]
NumberMatches == [negate : BOOLEAN, kind : {"equal", "and"}, pattern : {<<>>}, num : Numbers]
Conditions == StringMatches \union NumberMatches

(* An opcode.  start is where the comparison begins, with two special        *)
(* values; exact is the option EXACT_LENGHT.                                 *)
kSeekForward == -1
kSeekToEnd == 1048575
Options == {"negate", "clear", "or"}
NumberOpcode(kind, num, options) ==
  [kind |-> kind, options |-> options, num |-> num,
   fragment |-> <<>>, start |-> 0, exact |-> FALSE, action |-> "none"]
StringOpcode(fragment, start, exact, options) ==
  [kind |-> "string", options |-> options, num |-> {},
   fragment |-> fragment, start |-> start, exact |-> exact, action |-> "none"]
ActionOpcode(action) ==
  [kind |-> "action", options |-> {}, num |-> {},
   fragment |-> <<>>, start |-> 0, exact |-> FALSE, action |-> action]

NoRule == [action |-> "none", conditions |-> <<>>, opcodes |-> <<>>]
ClearContext == [position |-> 0, options |-> {}]

VARIABLES
  rule,        \* the PolicyRule being written, with the conditions asked for
  rules,       \* rules_: the rules added to the LowLevelPolicy
  refused,     \* the pattern refused last
  policy,      \* the opcodes in the policy memory
  phase,       \* what the process does with the policy
  call,        \* the parameters of the call that is evaluated
  ix,          \* index of the next opcode
  context,     \* MatchContext
  skip_group,
  evaluation,
  result       \* what Evaluate returned last

ruleVars == <<rule, rules, refused>>
evalVars == <<call, ix, context, skip_group, evaluation, result>>
vars == <<ruleVars, policy, phase, evalVars>>

IsOpcode(op) ==
  /\ op.kind \in {"string", "equal", "and", "action"}
  /\ op.options \in SUBSET Options
  /\ op.num \in Numbers
  /\ op.start \in {kSeekForward, kSeekToEnd} \union Nat
  /\ op.exact \in BOOLEAN
  /\ op.action \in Actions \union {"none"}
  /\ op.kind = "string" => op.fragment # <<>>

IsRule(r) ==
  /\ r.action \in Actions
  /\ \A i \in 1..Len(r.conditions) : r.conditions[i] \in Conditions
  /\ \A i \in 1..Len(r.opcodes) : IsOpcode(r.opcodes[i])

TypeOK ==
  /\ rule = NoRule \/ IsRule(rule)
  /\ \A i \in 1..Len(rules) : IsRule(rules[i])
  /\ refused \in Patterns \union {<<>>}
  /\ \A i \in 1..Len(policy) : IsOpcode(policy[i])
  /\ phase \in {"rules", "ready", "evaluating", "answered"}
  /\ call \in Calls \union {NoCall}
  /\ ix \in 1..(Len(policy) + 1)
  /\ context.position \in 0..Len(call.str) /\ context.options \in {{}, {"or"}}
  /\ skip_group \in BOOLEAN /\ evaluation \in BOOLEAN
  /\ result \in Actions \union {"none", "no_match", "error"}

Init ==
  /\ rule = NoRule
  /\ rules = <<>>
  /\ refused = <<>>
  /\ policy = <<>>
  /\ phase = "rules"
  /\ call = NoCall
  /\ ix = 1
  /\ context = ClearContext
  /\ skip_group = FALSE
  /\ evaluation = FALSE
  /\ result = "none"

-----------------------------------------------------------------------------
(* PolicyRule: from a pattern to opcodes.  The generator g holds the opcodes *)
(* made so far, the fragment read since the last wildcard, the kind of the   *)
(* last character and the wildcard that waits for an opcode.                 *)

Generator(opcodes) ==
  [opcodes |-> opcodes, fragment |-> <<>>, last_char |-> "none",
   state |-> "none", skip_count |-> 0, escaped |-> FALSE, ok |-> TRUE]

(* Mutant: the last opcode of a match leaves its position behind.            *)
StringOptionsKept(negate, last_call) ==
  (IF negate /\ ~last_call THEN {"or"} ELSE {}) \union (IF negate THEN {"negate"} ELSE {})

StringOptions(negate, last_call) ==
  (IF last_call THEN {"clear"} ELSE IF negate THEN {"or"} ELSE {})
    \union (IF negate THEN {"negate"} ELSE {})

(* Mutant: several '?' in a row skip one character.                          *)
SkipOne(g, last_call) ==
  CASE g.state = "asterisk" -> IF last_call THEN kSeekToEnd ELSE kSeekForward
    [] g.state = "qmark" -> 1
    [] OTHER -> 0

(* Where the comparison of the pending fragment starts.                      *)
StartPosition(g, last_call) ==
  CASE g.state = "asterisk" -> IF last_call THEN kSeekToEnd ELSE kSeekForward
    [] g.state = "qmark" -> g.skip_count
    [] OTHER -> 0

(* Without a fragment there is nothing to generate, but the last call sets   *)
(* the options of the opcode written last, whoever it belongs to.            *)
GenStringOpcode(g, negate, last_call) ==
  IF g.fragment = <<>>
  THEN IF last_call /\ g.opcodes # <<>>
       THEN [g EXCEPT !.opcodes[Len(g.opcodes)].options = StringOptions(negate, TRUE)]
       ELSE g
  ELSE [g EXCEPT !.opcodes = Append(@, StringOpcode(g.fragment, StartPosition(g, last_call),
                                          last_call /\ g.state = "none",
                                          StringOptions(negate, last_call))),
                 !.skip_count = IF g.state = "qmark" THEN 0 ELSE @,
                 !.fragment = <<>>]

AddChar(g, c) == [g EXCEPT !.fragment = Append(@, c), !.last_char = "alpha", !.escaped = FALSE]

(* One turn of the loop of AddStringMatch: '**' and '?*' are errors, so is   *)
(* '*?', and "/?" stands for the character '?'.                              *)
ReadChar(g, negate, pattern, i) ==
  CASE ~g.ok -> g
    [] g.ok /\ g.escaped -> AddChar(g, pattern[i])
    [] g.ok /\ ~g.escaped /\ pattern[i] = "*" ->
         IF g.last_char \in {"asterisk", "qmark"} THEN [g EXCEPT !.ok = FALSE]
         ELSE [GenStringOpcode(g, negate, FALSE) EXCEPT
                 !.last_char = "asterisk", !.state = "asterisk"]
    [] g.ok /\ ~g.escaped /\ pattern[i] = "?" ->
         IF g.last_char = "asterisk" THEN [g EXCEPT !.ok = FALSE]
         ELSE [GenStringOpcode(g, negate, FALSE) EXCEPT
                 !.last_char = "qmark", !.state = "qmark", !.skip_count = @ + 1]
    [] OTHER ->
         IF pattern[i] = "/" /\ i < Len(pattern) /\ pattern[i + 1] = "?"
         THEN [g EXCEPT !.escaped = TRUE]
         ELSE AddChar(g, pattern[i])

Generated(opcodes, negate, pattern) ==
  LET read[i \in 0..Len(pattern)] ==
        IF i = 0 THEN Generator(opcodes) ELSE ReadChar(read[i - 1], negate, pattern, i)
      g == read[Len(pattern)]
  IN  IF g.ok THEN GenStringOpcode(g, negate, TRUE) ELSE g

-----------------------------------------------------------------------------
(* Writing rules.                                                            *)

Written ==
  LET upto[i \in 0..Len(rules)] ==
        IF i = 0 THEN Len(rule.conditions) ELSE upto[i - 1] + Len(rules[i].conditions)
  IN  upto[Len(rules)]

NewRule(action) ==
  /\ phase = "rules" /\ rule = NoRule /\ Len(rules) < MaxRules
  /\ rule' = [NoRule EXCEPT !.action = action]
  /\ refused' = <<>>
  /\ UNCHANGED <<rules, policy, phase, evalVars>>

(* A pattern that is refused ends the rule: GenerateRules returns false.     *)
AddStringMatch(c) ==
  /\ rule # NoRule /\ Written < MaxConditions
  /\ LET g == Generated(rule.opcodes, c.negate, c.pattern) IN
     IF g.ok
     THEN /\ rule' = [rule EXCEPT !.opcodes = g.opcodes, !.conditions = Append(@, c)]
          /\ UNCHANGED refused
     ELSE rule' = NoRule /\ refused' = c.pattern
  /\ UNCHANGED <<rules, policy, phase, evalVars>>

AddNumberMatch(c) ==
  /\ rule # NoRule /\ Written < MaxConditions
  /\ rule' = [rule EXCEPT
       !.opcodes = Append(@, NumberOpcode(c.kind, c.num, IF c.negate THEN {"negate"} ELSE {})),
       !.conditions = Append(@, c)]
  /\ UNCHANGED <<rules, refused, policy, phase, evalVars>>

(* AddRule appends the action opcode (PolicyRule::Done) and keeps a copy.    *)
AddRule ==
  /\ rule # NoRule
  /\ rules' = Append(rules, [rule EXCEPT !.opcodes = Append(@, ActionOpcode(rule.action))])
  /\ rule' = NoRule
  /\ UNCHANGED <<refused, policy, phase, evalVars>>

(* LowLevelPolicy::Done, with room for every rule: the opcodes of one behind *)
(* those of the other.                                                       *)
LaidOut ==
  LET upto[i \in 0..Len(rules)] ==
        IF i = 0 THEN <<>> ELSE upto[i - 1] \o rules[i].opcodes
  IN  upto[Len(rules)]

Done ==
  /\ phase = "rules" /\ rule = NoRule
  /\ policy' = LaidOut
  /\ phase' = "ready"
  /\ refused' = <<>>
  /\ UNCHANGED <<rule, rules, evalVars>>

-----------------------------------------------------------------------------
(* PolicyOpcode::Evaluate.                                                   *)

(* Where in the rest of the string an opcode of kind "string" matches: the   *)
(* offsets it compares at, and among them those where it finds its fragment. *)
Offsets(op, rest) ==
  LET len == Len(op.fragment) IN
  IF rest = <<>> \/ len > Len(rest) THEN {}
  ELSE IF op.start = kSeekForward THEN 0..(Len(rest) - len)
  ELSE IF op.start = kSeekToEnd THEN {Len(rest) - len}
  ELSE IF op.exact /\ len + op.start # Len(rest) THEN {}
  ELSE {k \in {op.start} : len + k <= Len(rest)}

Found(op, rest) ==
  {k \in Offsets(op, rest) : SubSeq(rest, k + 1, k + Len(op.fragment)) = op.fragment}

Rest == SubSeq(call.str, context.position + 1, Len(call.str))

(* The value of a condition before the options are applied.                  *)
OpcodeEval(op) ==
  CASE op.kind = "equal" -> call.num = op.num
    [] op.kind = "and" -> call.num \cap op.num # {}
    [] op.kind = "string" -> Found(op, Rest) # {}

(* A match moves the position behind the first place where it was found.     *)
Advance(op) ==
  IF op.kind = "string" /\ Found(op, Rest) # {}
  THEN context.position + Min(Found(op, Rest)) + Len(op.fragment)
  ELSE context.position

ContextAfter(op) ==
  LET cleared == IF "clear" \in op.options THEN ClearContext
                 ELSE [context EXCEPT !.position = Advance(op)]
  IN  IF "or" \in op.options THEN [cleared EXCEPT !.options = {"or"}] ELSE cleared

-----------------------------------------------------------------------------
(* PolicyProcessor::Evaluate, one turn of its loop at a time.  A processor   *)
(* keeps nothing between two calls: one call stands for all.                 *)

Evaluate(c) ==
  /\ phase = "ready" /\ policy # <<>>
  /\ phase' = "evaluating"
  /\ call' = c
  /\ UNCHANGED <<ruleVars, policy, ix, context, skip_group, evaluation, result>>

(* No opcode: Evaluate returns at once.                                      *)
EvaluateNothing(c) ==
  /\ phase = "ready" /\ policy = <<>>
  /\ call' = c
  /\ phase' = "answered"
  /\ result' = "no_match"
  /\ UNCHANGED <<ruleVars, policy, ix, context, skip_group, evaluation>>

(* Mutant: the context is kept when a rule is skipped.                       *)
SkipOpcodeKeepingContext ==
  /\ phase = "evaluating" /\ ix <= Len(policy) /\ skip_group
  /\ LET is_action == policy[ix].kind = "action" IN
     /\ ~(is_action /\ context.options = {"or"})
     /\ skip_group' = ~is_action
  /\ ix' = ix + 1
  /\ UNCHANGED <<ruleVars, policy, phase, call, evaluation, result, context>>

(* Skipping ends at an action opcode: in OR mode that one is evaluated, in   *)
(* AND mode the one after it is.                                             *)
SkipOpcode ==
  /\ phase = "evaluating" /\ ix <= Len(policy) /\ skip_group
  /\ LET is_action == policy[ix].kind = "action" IN
     /\ ~(is_action /\ context.options = {"or"})
     /\ context' = IF is_action THEN ClearContext ELSE context
     /\ skip_group' = ~is_action
  /\ ix' = ix + 1
  /\ UNCHANGED <<ruleVars, policy, phase, call, evaluation, result>>

(* A condition.  In OR mode a true one settles its group, in AND mode a      *)
(* false one does.                                                           *)
EvaluateCondition ==
  /\ phase = "evaluating" /\ ix <= Len(policy) /\ ~skip_group
  /\ policy[ix].kind # "action"
  /\ LET op == policy[ix]
         value == OpcodeEval(op) # ("negate" \in op.options)
     IN  /\ context' = ContextAfter(op)
         /\ evaluation' = value
         /\ skip_group' = (value <=> context'.options = {"or"})
  /\ ix' = ix + 1
  /\ UNCHANGED <<ruleVars, policy, phase, call, result>>

EvaluateAction ==
  /\ phase = "evaluating" /\ ix <= Len(policy)
  /\ policy[ix].kind = "action"
  /\ skip_group => context.options = {"or"}
  /\ result' = policy[ix].action
  /\ phase' = "answered"
  /\ context' = IF skip_group THEN ClearContext ELSE context
  /\ skip_group' = FALSE
  /\ UNCHANGED <<ruleVars, policy, call, ix, evaluation>>

EndOfPolicy ==
  /\ phase = "evaluating" /\ ix > Len(policy)
  /\ result' = IF evaluation THEN "error" ELSE "no_match"
  /\ phase' = "answered"
  /\ UNCHANGED <<ruleVars, policy, call, ix, context, skip_group, evaluation>>

Next ==
  \/ \E a \in Actions : NewRule(a)
  \/ \E c \in StringMatches : AddStringMatch(c)
  \/ \E c \in NumberMatches : AddNumberMatch(c)
  \/ AddRule
  \/ Done
  \/ \E c \in Calls : Evaluate(c)
  \/ \E c \in Calls : EvaluateNothing(c)
  \/ SkipOpcode
  \/ EvaluateCondition
  \/ EvaluateAction
  \/ EndOfPolicy

Spec == Init /\ [][Next]_vars

-----------------------------------------------------------------------------
(* The reference: what a pattern means according to sandbox_policy.h, and    *)
(* that the first rule all of whose conditions hold decides.                 *)

Escape(p, i) == p[i] = "/" /\ i < Len(p) /\ p[i + 1] = "?"

Matches(p, s) ==
  LET m[at \in (1..(Len(p) + 2)) \X (1..(Len(s) + 1))] ==
        LET i == at[1]
            j == at[2]
        IN  \/ i > Len(p) /\ j > Len(s)
            \/ i <= Len(p) /\ p[i] = "*" /\ (m[<<i + 1, j>>] \/ (j <= Len(s) /\ m[<<i, j + 1>>]))
            \/ /\ i <= Len(p) /\ p[i] # "*" /\ j <= Len(s)
               /\ \/ p[i] = "?" /\ m[<<i + 1, j + 1>>]
                  \/ Escape(p, i) /\ s[j] = "?" /\ m[<<i + 2, j + 1>>]
                  \/ p[i] # "?" /\ ~Escape(p, i) /\ s[j] = p[i] /\ m[<<i + 1, j + 1>>]
  IN  m[<<1, 1>>]

Holds(c, in) ==
  c.negate # CASE c.kind = "string" -> Matches(c.pattern, in.str)
               [] c.kind = "equal" -> in.num = c.num
               [] c.kind = "and" -> in.num \cap c.num # {}

Applies(r, in) == \A i \in 1..Len(r.conditions) : Holds(r.conditions[i], in)

Expected(in) ==
  LET applying == {i \in 1..Len(rules) : Applies(rules[i], in)} IN
  IF applying = {} THEN "no_match" ELSE rules[Min(applying)].action

(* The wildcards of a pattern: positions that are not escaped.               *)
Wild(p) == {i \in 1..Len(p) : p[i] \in {"*", "?"} /\ ~(i > 1 /\ Escape(p, i - 1))}
QuestionMarks(p) == {i \in Wild(p) : p[i] = "?"}
Asterisks(p) == {i \in Wild(p) : p[i] = "*"}
OnlyWild(p) == Wild(p) = 1..Len(p)
Pieces(p) == Cardinality({i \in (1..Len(p)) \ Wild(p) : i = 1 \/ i - 1 \in Wild(p)})

(* Two wildcards in a row are in order only when both are question marks.    *)
WellFormed(p) ==
  \A i \in Wild(p) : i + 1 \in Wild(p) => {i, i + 1} \subseteq QuestionMarks(p)

(* Conditions the opcodes express as they are documented: no '?' wildcard, a *)
(* negated pattern of several pieces written last, and a pattern of a single *)
(* wildcard neither negated nor written behind a negated condition.  An      *)
(* empty pattern has no opcode: it would match every string.                 *)
Plain(r) ==
  \A i \in 1..Len(r.conditions) :
    LET c == r.conditions[i] IN
    c.kind = "string" =>
      /\ c.pattern # <<>> /\ QuestionMarks(c.pattern) = {}
      /\ c.negate /\ Pieces(c.pattern) > 1 => i = Len(r.conditions)
      /\ OnlyWild(c.pattern) => ~c.negate /\ (i > 1 => ~r.conditions[i - 1].negate)

(* Rules that use '?' before any '*', and negate no pattern.  A row of '?'   *)
(* is shorter than the number that stands for the end of the string.         *)
Positive(r) ==
  \A i \in 1..Len(r.conditions) :
    LET c == r.conditions[i] IN
    c.kind = "string" =>
      /\ ~c.negate /\ Len(c.pattern) < kSeekToEnd
      /\ \A q \in QuestionMarks(c.pattern), a \in Asterisks(c.pattern) : q < a
      /\ OnlyWild(c.pattern) /\ i > 1 => ~r.conditions[i - 1].negate

AllRules(P(_)) == \A i \in 1..Len(rules) : P(rules[i])

(* The opcodes of plain rules decide a call as the rules do: the first rule  *)
(* all of whose conditions hold, whatever groups were skipped, negated or    *)
(* combined with OR before it (policy_low_level.cc:173, policy_engine_       *)
(* processor.cc:70).                                                         *)
FirstMatchWins == phase = "answered" /\ AllRules(Plain) => result = Expected(call)

(* A '?' may let more calls match than it should, never fewer: a call for    *)
(* which a rule applies is not left without an action.                       *)
QuestionMarkNeverStricter ==
  phase = "answered" /\ AllRules(Positive) /\ Expected(call) # "no_match" => result # "no_match"

(* Evaluation does not run off the end of a policy with a condition that     *)
(* held: every rule ends with its action (policy_engine_processor.cc:101).   *)
NoPolicyError == result # "error"

(* A rule never sees the position or the OR mode another rule left in the    *)
(* context.                                                                  *)
ContextIsOwn ==
  phase = "evaluating" /\ ~skip_group /\ (ix = 1 \/ policy[ix - 1].kind = "action")
    => context = ClearContext

(* A pattern is refused exactly when it is malformed.                        *)
RefusedIsMalformed ==
  /\ refused # <<>> => ~WellFormed(refused)
  /\ \A i \in 1..Len(rule.conditions) :
       rule.conditions[i].kind = "string" => WellFormed(rule.conditions[i].pattern)

(* Rules do not disturb each other: evaluation ends with an action or with   *)
(* no match, every rule starts with a context of its own, and only malformed *)
(* patterns are refused (policy_engine_processor.cc:70, policy_low_level.cc: *)
(* 190).                                                                     *)
EngineInv == TypeOK /\ NoPolicyError /\ ContextIsOwn /\ RefusedIsMalformed
================================================================================
