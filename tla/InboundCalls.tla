----------------------------- MODULE InboundCalls -----------------------------
(***************************************************************************)
(* Inbound calls and their configurations: CallRouting with the table      *)
(* inbound_configs of api/routes/inbound.py beside it.  The voice webhook  *)
(* takes the task of the call from an active configuration; the media      *)
(* stream endpoint reads one again for the session's business, agent and   *)
(* knowledge.  Between the two the configurations may be edited.           *)
(*                                                                         *)
(* A configuration stands for its contents, its task included, which no    *)
(* request changes; what requests change is whether it is active.          *)
(***************************************************************************)
EXTENDS CallRouting, FiniteSets

CONSTANTS
    Configs,  \* the configurations, present and future
    Edits     \* bound: the PATCH requests

ASSUME InboundCallsAssumption ==
    /\ None \notin Configs
    /\ IsFiniteSet(Configs)
    /\ {"unread", "nobody"} \cap (Configs \cup {None}) = {}

VARIABLES
    configs,    \* [Configs -> where the row of inbound_configs stands]
    edit,       \* [Edits -> the PATCH request]
    found,      \* [Inbound -> what the webhook has read, while it goes on]
    taskOf,     \* [Inbound -> the configuration calls.task_type is from]
    servedBy,   \* [Inbound -> the configuration the session was given]
    disturbed   \* the legs between whose two reads the choice was not the same

settings == <<configs, edit>>
choices == <<found, taskOf, servedBy, disturbed>>
inboundVars == <<vars, settings, choices>>

ConfigState == {"absent", "active", "inactive", "deleted"}

\* None: no active configuration, and the task "support".
Choice == Configs \cup {None}

InboundInit ==
    /\ Init
    /\ configs \in [Configs -> {"absent", "active"}]
    /\ edit = [e \in Edits |-> [at |-> "idle"]]
    /\ found = [i \in Inbound |-> "unread"]
    /\ taskOf = [i \in Inbound |-> None]
    /\ servedBy = [i \in Inbound |-> "nobody"]
    /\ disturbed = {}

Active(state) == {c \in Configs : state[c] = "active"}

-------------------------------------------------------------------------------
(* The requests of api/routes/inbound.py.                                  *)

\* Every leg is disturbed by a change of what is active.
Becoming(new) ==
    /\ configs' = new
    /\ disturbed' = IF Active(new) = Active(configs) THEN disturbed ELSE Inbound
    /\ UNCHANGED <<vars, found, taskOf, servedBy>>

\* The new one is active, and so are those that were.
CreateConfig(c) ==
    /\ configs[c] = "absent"
    /\ Becoming([configs EXCEPT ![c] = "active"])
    /\ UNCHANGED edit

DeleteConfig(c) ==
    /\ configs[c] \in {"active", "inactive"}
    /\ Becoming([configs EXCEPT ![c] = "deleted"])
    /\ UNCHANGED edit

\* The row is read, and the fields of the payload are set.
ReadForEdit(e, c) ==
    /\ edit[e].at = "idle"
    /\ configs[c] \in {"active", "inactive"}
    /\ \E wanted \in {"active", "inactive"} :
          edit' = [edit EXCEPT ![e] =
                      [at |-> "read", config |-> c, seen |-> configs[c], wanted |-> wanted]]
    /\ UNCHANGED <<vars, configs, choices>>

\* The ORM writes what differs from the value read; a row that is gone meanwhile
\* makes the UPDATE fail.
WriteEdit(e) ==
    /\ edit[e].at = "read"
    /\ edit' = [edit EXCEPT ![e] = [at |-> "done"]]
    /\ LET c == edit[e].config IN
       Becoming(IF edit[e].wanted = edit[e].seen \/ configs[c] = "deleted"
                THEN configs
                ELSE [configs EXCEPT ![c] = edit[e].wanted])

-------------------------------------------------------------------------------
(* A call.                                                                 *)

\* Mutant of Eligible: is_active is not asked for.
EligibleAny == {c \in Configs : configs[c] \in {"active", "inactive"}}

\* The query of the webhook: limit(1), in no order.
Eligible == Active(configs)

\* One of them, or the default.
ChoiceOf(eligible) == IF eligible = {} THEN {None} ELSE eligible

LookUpConfig(i) ==
    /\ leg[i] = "in-progress"
    /\ stream[i] = "none"
    /\ found[i] = "unread"
    /\ \E c \in ChoiceOf(Eligible) : found' = [found EXCEPT ![i] = c]
    /\ disturbed' = IF Cardinality(Active(configs)) > 1 THEN disturbed \cup {i}
                                                         ELSE disturbed \ {i}
    /\ UNCHANGED <<vars, settings, taskOf, servedBy>>

\* The row is inserted, or its sid is taken: Twilio has asked before.
InsertCall(i) ==
    /\ found[i] # "unread"
    /\ \/ CreateInbound(i) /\ taskOf' = [taskOf EXCEPT ![i] = found[i]]
       \/ RepeatInbound(i) /\ UNCHANGED taskOf
    /\ found' = [found EXCEPT ![i] = "unread"]
    /\ UNCHANGED <<settings, servedBy, disturbed>>

\* media_stream reads the row of the call, and a configuration.
ServeCall(i) ==
    /\ OpenMedia(i)
    /\ \E c \in ChoiceOf(Active(configs)) : servedBy' = [servedBy EXCEPT ![i] = c]
    /\ UNCHANGED <<settings, found, taskOf, disturbed>>

CallGoesOn(i) ==
    /\ RecordStart(i) \/ RecordEnd(i) \/ HangUp(i)
    /\ UNCHANGED <<settings, choices>>

Requests ==
    \/ \E c \in Configs : CreateConfig(c) \/ DeleteConfig(c)
    \/ \E e \in Edits : (\E c \in Configs : ReadForEdit(e, c)) \/ WriteEdit(e)

InboundNext ==
    \/ Requests
    \/ \E i \in Inbound : LookUpConfig(i) \/ InsertCall(i) \/ ServeCall(i) \/ CallGoesOn(i)

InboundSpec == InboundInit /\ [][InboundNext]_inboundVars

-------------------------------------------------------------------------------
Edit ==
    [at : {"idle", "done"}]
    \cup [at : {"read"}, config : Configs, seen : {"active", "inactive"},
          wanted : {"active", "inactive"}]

InboundTypeOK ==
    /\ configs \in [Configs -> ConfigState]
    /\ edit \in [Edits -> Edit]
    /\ found \in [Inbound -> Choice \cup {"unread"}]
    /\ taskOf \in [Inbound -> Choice]
    /\ servedBy \in [Inbound -> Choice \cup {"nobody"}]
    /\ disturbed \subseteq Inbound

(***************************************************************************)
(* The webhook and the media stream agree: the agent of a call has the     *)
(* business and knowledge of the configuration its task is from, unless    *)
(* the active configurations changed between the two reads, or were more   *)
(* than one.  A repeated webhook changes neither.                          *)
(***************************************************************************)
TaskFitsConfig ==
    \A i \in Inbound : servedBy[i] \in Choice /\ i \notin disturbed => servedBy[i] = taskOf[i]

===============================================================================
