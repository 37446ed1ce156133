----------------------------- MODULE TurnTools -----------------------------
(***************************************************************************)
(* The tools a turn of a single chat may use: ContextAssemblyService and   *)
(* SingleChatFlowService._resolve_tools offer a set of tools to the model  *)
(* under the policies of the assistant, the project, the requested context *)
(* capabilities and the regex gate; the combined executor runs the calls   *)
(* the model then makes.  The user changes settings at any time.           *)
(*                                                                         *)
(* A policy is a partial function from tools to BOOLEAN, over the defaults *)
(* of the registry.  A gate is a sequence of rules [on, valid, priority,   *)
(* hits, include, exclude]; hits is the set of messages its pattern finds. *)
(* Descriptions of tools, arguments and results are left out.              *)
(***************************************************************************)
EXTENDS Naturals, Sequences, FiniteSets, SequencesExt

CONSTANTS None,
          Registered,   \* tools of the registry
          Knowledge, Documents, \* tools of RagToolService and of the project documents
          Python,       \* execute_python, one of Registered
          Defaults,     \* tools that are on unless a policy says otherwise
          GroupOf,      \* per registered tool: its group
          CapabilityGroup, \* per context capability: the group it guards, or None
          Handlers,     \* capabilities with a handler
          Bases, Messages, \* knowledge bases, messages of users
          Policies, Gates, \* what the user may set
          MaxChanges, MaxCalls \* bounds: changes of settings, calls of a turn

VARIABLES settings, \* [assistant, project, bases, gate, code] as stored now
          turn,     \* the turn, or None before it
          call,     \* the execute_python call under way, or None
          ran,      \* history: <<tool, how>> of the calls that ran
          changes   \* changes so far

vars == <<settings, turn, call, ran, changes>>

Tools == Registered \cup Knowledge \cup Documents
Methods == {"client", "server_jupyter", "server_subprocess"}

-----------------------------------------------------------------------------
(* Policies *)

On(policy) == {t \in Tools : IF t \in DOMAIN policy THEN policy[t] ELSE t \in Defaults}

\* Knowledge tools are not for the assistant to switch; an assistant that could not be
\* loaded has the default policy.
AssistantAllows(assistant) ==
    IF assistant = None THEN On(<<>>)
    ELSE (On(assistant.tools) \ Knowledge) \cup (Knowledge \cap Defaults)

\* A project that is gone or cannot be loaded has the default policy.
ProjectAllows(project) == IF project = None THEN On(<<>>) ELSE On(project.tools)

\* First a faulty version in which either of the two is enough.
EitherAllows(assistant, context, project) ==
    IF context = "chat" THEN AssistantAllows(assistant)
    ELSE AssistantAllows(assistant) \cup ProjectAllows(project)
PoliciesAllow(assistant, context, project) ==
    IF context = "chat" THEN AssistantAllows(assistant)
    ELSE AssistantAllows(assistant) \cap ProjectAllows(project)

EffectiveBases(assistant, context, project, enabled) ==
    LET own    == IF assistant = None THEN {} ELSE assistant.bases
        theirs == IF context = "chat" \/ project = None THEN {} ELSE project.bases
        raw    == IF theirs # {} /\ project.override THEN theirs ELSE own \cup theirs
    IN  raw \cap enabled

GuardedBy(ids) == {CapabilityGroup[c] : c \in ids \cap DOMAIN CapabilityGroup} \ {None}

\* First a faulty version that guards the groups that were asked for.
BlockedOfRequested(requested) == {t \in Registered : GroupOf[t] \in GuardedBy(requested)}
Blocked(requested) ==
    {t \in Registered : GroupOf[t] \in GuardedBy(DOMAIN CapabilityGroup) \ GuardedBy(requested)}

\* ToolGateService.apply: the first rule that matches, by priority, decides.
Matching(gate, message) ==
    {i \in DOMAIN gate.rules :
        gate.rules[i].on /\ gate.rules[i].valid /\ message \in gate.rules[i].hits}
Deciding(gate, message) ==
    LET matching == Matching(gate, message)
        higher(i, j) == \/ gate.rules[i].priority > gate.rules[j].priority
                        \/ gate.rules[i].priority = gate.rules[j].priority /\ i <= j
    IN  CHOOSE i \in matching : \A j \in matching : higher(i, j)
GatePasses(gate, message, candidates) ==
    IF ~gate.on \/ Matching(gate, message) = {} THEN candidates
    ELSE LET rule == gate.rules[Deciding(gate, message)]
         IN  (IF rule.include = {} THEN candidates ELSE candidates \cap rule.include)
                 \ rule.exclude

-----------------------------------------------------------------------------
(* The turn *)

Init ==
    /\ settings \in [assistant : Policies.assistant, project : Policies.project,
                     bases : Policies.bases, gate : Gates, code : Policies.code]
    /\ turn = None /\ call = None /\ ran = {} /\ changes = 0

\* prepare_context: the assistant is read here and kept.  A capability nobody handles ends
\* the turn; one that fails gives no context.
Prepare(context, message, requested) ==
    /\ turn = None
    /\ IF requested \subseteq DOMAIN CapabilityGroup \cap Handlers
       THEN \E assistant \in {settings.assistant, None} :
                turn' = [pc |-> "prepared", context |-> context, message |-> message,
                         requested |-> requested, assistant |-> assistant,
                         bases |-> {}, project |-> None, gate |-> None, broken |-> None,
                         offered |-> {}, allowed |-> {}, calls |-> 0]
       ELSE turn' = [pc |-> "refused"]
    /\ UNCHANGED <<settings, call, ran, changes>>

\* ProjectKnowledgeBaseResolver, which loads the assistant again if it has to.
ResolveBases ==
    /\ turn # None /\ turn.pc = "prepared"
    /\ \/ turn' = [turn EXCEPT !.pc = "bases",
               !.bases = EffectiveBases(IF turn.assistant = None THEN settings.assistant
                                        ELSE turn.assistant,
                                        turn.context, settings.project, settings.bases)]
       \/ turn' = [turn EXCEPT !.pc = "resolved", !.broken = "bases",
               !.offered = Registered \ Blocked(turn.requested)]
    /\ UNCHANGED <<settings, call, ran, changes>>

Candidates ==
    (Registered \ Blocked(turn.requested))
        \cup (IF turn.bases = {} THEN {} ELSE Knowledge)
        \cup (IF turn.context = "chat" THEN {} ELSE Documents)

\* The policies, the descriptions and the gate; whichever fails, what was resolved until
\* then stands.  First a faulty version whose gate only thins out what is offered.
Resolved(project, gate, broken, offered, allowed) ==
    turn' = [turn EXCEPT !.pc = "resolved", !.project = project, !.gate = gate,
                         !.broken = broken, !.offered = offered, !.allowed = allowed]
AllowUngated(policies, passed) == policies
Allow(policies, passed) == policies \cap passed
ResolvePolicies ==
    /\ turn # None /\ turn.pc = "bases"
    /\ \E project \in {settings.project, None} :
        LET policies == Candidates \cap PoliciesAllow(turn.assistant, turn.context, project)
            passed   == GatePasses(settings.gate, turn.message, policies)
        IN  \/ Resolved(None, None, "policies", Candidates, {})
            \/ Resolved(project, None, "gate", policies, policies)
            \/ Resolved(project, settings.gate, None, policies \cap passed,
                        Allow(policies, passed))
    /\ UNCHANGED <<settings, call, ran, changes>>

-----------------------------------------------------------------------------
(* The calls of the model, one at a time *)

MayCall ==
    /\ turn # None /\ turn.pc = "resolved" /\ turn.offered # {}
    /\ call = None /\ turn.calls < MaxCalls

\* Runs in the registry, or in the first executor that knows it; a name that is not allowed
\* is answered with an error.  First a faulty version that trusts what was offered.
TrustsOffer(tool) == tool \in turn.offered
Passes(tool) == tool \in turn.allowed
Call(tool) ==
    /\ MayCall /\ (tool = Python => ~Passes(tool))
    /\ turn' = [turn EXCEPT !.calls = @ + 1]
    /\ ran' = IF Passes(tool) THEN ran \cup {<<tool, turn.bases>>} ELSE ran
    /\ UNCHANGED <<settings, call, changes>>

\* The methods in their order, the ones that are missing from it last.
Order(priority) ==
    priority \o SelectSeq(<<"client", "server_jupyter", "server_subprocess">>,
                          LAMBDA m : m \notin Range(priority))
CallPython ==
    /\ MayCall /\ Passes(Python)
    /\ turn' = [turn EXCEPT !.calls = @ + 1]
    /\ \E readable \in BOOLEAN :
        LET code == IF readable THEN settings.code
                    ELSE [on |-> {"client"}, priority |-> <<>>]
        IN  call' = [code |-> code, left |-> SelectSeq(Order(code.priority),
                                                       LAMBDA m : m \in code.on)]
    /\ UNCHANGED <<settings, ran, changes>>

\* The browser answers, or does not in time and the next method is tried.
TryClient ==
    /\ call # None /\ call.left # <<>> /\ Head(call.left) = "client"
    /\ \/ call' = None /\ ran' = ran \cup {<<Python, "client">>}
       \/ call' = [call EXCEPT !.left = Tail(@)] /\ UNCHANGED ran
    /\ UNCHANGED <<settings, turn, changes>>

\* What the server runs, times out or not, is the answer.
RunOnServer ==
    /\ call # None /\ call.left # <<>> /\ Head(call.left) # "client"
    /\ call' = None /\ ran' = ran \cup {<<Python, Head(call.left)>>}
    /\ UNCHANGED <<settings, turn, changes>>

NoMethod ==
    /\ call # None /\ call.left = <<>>
    /\ call' = None /\ UNCHANGED <<settings, turn, ran, changes>>

-----------------------------------------------------------------------------
(* The user *)

Set(field, values) ==
    /\ changes < MaxChanges /\ changes' = changes + 1
    /\ \E value \in values : settings' = [settings EXCEPT ![field] = value]
    /\ UNCHANGED <<turn, call, ran>>

Next ==
    \/ \E c \in {"chat", "project"}, m \in Messages,
          r \in SUBSET (DOMAIN CapabilityGroup \cup {"unknown"}) : Prepare(c, m, r)
    \/ ResolveBases \/ ResolvePolicies
    \/ \E t \in Tools : Call(t)
    \/ CallPython \/ TryClient \/ RunOnServer \/ NoMethod
    \/ \/ Set("assistant", Policies.assistant) \/ Set("project", Policies.project)
       \/ Set("bases", Policies.bases) \/ Set("gate", Gates) \/ Set("code", Policies.code)

Spec == Init /\ [][Next]_vars

-----------------------------------------------------------------------------
(* Properties *)

TypeOK ==
    /\ settings.bases \subseteq Bases
    /\ turn # None /\ turn.pc # "refused" =>
           turn.offered \subseteq Tools /\ turn.allowed \subseteq Tools
    /\ changes \in 0..MaxChanges

(***************************************************************************)
(* Nothing runs that is switched off: a tool that ran was on for the       *)
(* assistant the turn began with, on for the project as the turn found it, *)
(* in no group that a capability guards unless that was asked for, passed  *)
(* by the gate if the gate could be read, and a document tool only in a    *)
(* project - whatever failed while the tools were resolved and whatever    *)
(* names the model makes up (_resolve_tools, _build_combined_tool_executor).*)
(***************************************************************************)
NothingRunsThatIsOff ==
    \A run \in ran :
        LET tool == run[1]
        IN  /\ tool \in AssistantAllows(turn.assistant)
            /\ turn.context = "project" => tool \in ProjectAllows(turn.project)
            /\ tool \in Registered /\ GroupOf[tool] \in GuardedBy(DOMAIN CapabilityGroup) =>
                   GroupOf[tool] \in GuardedBy(turn.requested)
            /\ turn.broken # "gate" => tool \in GatePasses(turn.gate, turn.message, {tool})
            /\ tool \in Documents => turn.context = "project"

(***************************************************************************)
(* What the executor would run was offered to the model, and once the      *)
(* policies could be read everything on offer would run.                   *)
(***************************************************************************)
OfferIsHonest ==
    turn # None /\ turn.pc = "resolved" =>
        /\ turn.allowed \subseteq turn.offered
        /\ turn.broken \notin {"bases", "policies"} => turn.offered = turn.allowed
        /\ turn.allowed \cap Knowledge # {} => turn.bases # {}

=============================================================================
