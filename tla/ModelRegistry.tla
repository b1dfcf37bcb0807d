----------------------------- MODULE ModelRegistry -----------------------------
(***************************************************************************)
(* The registry of configured models (roboagent/model/registry.py), by     *)
(* which a model is found by its name, or by default.  A call may be       *)
(* refused and the registry used again.                                    *)
(***************************************************************************)
EXTENDS Integers, Sequences, SequencesExt

CONSTANTS
    ModelNames,
    MaxModels      \* bound: models registered

ASSUME ModelRegistryAssumption == MaxModels \in Nat

VARIABLES
    models,         \* _models, in the order of registration
    defaultModel,   \* _default_model
    reply,          \* how the last call ended, and the model it gave
    kept            \* history: was the registry as it is before that call

registryVars == <<models, defaultModel, reply, kept>>

NoName == "none"
Configs == [name : ModelNames, enabled : BOOLEAN]
NoModel == [name |-> NoName, enabled |-> FALSE]
Reply(ok, code, model) == [ok |-> ok, code |-> code, model |-> model]

Registered(ms) == {ms[i].name : i \in DOMAIN ms}
DefaultStands(ms, default) == default = NoName \/ default \in Registered(ms)

\* A call leaves this and validates the default model: it may have changed the registry
\* and fail all the same.
Leaves(ms, default, code) ==
    /\ models' = ms /\ defaultModel' = default
    /\ reply' = IF DefaultStands(ms, default) THEN Reply(TRUE, code, NoModel)
                ELSE Reply(FALSE, "config", NoModel)
    /\ kept' = (ms = models /\ default = defaultModel)

Replies(answer) == reply' = answer /\ kept' = TRUE /\ UNCHANGED <<models, defaultModel>>

RegistryInit ==
    /\ models = <<>> /\ defaultModel = NoName
    /\ reply = Reply(TRUE, "none", NoModel) /\ kept = TRUE

\* register and register_batch: all of the models, or none.
Register(batch) ==
    IF IsInjective([i \in DOMAIN batch |-> batch[i].name])
       /\ Registered(batch) \cap Registered(models) = {}
    THEN Leaves(models \o batch, defaultModel, "registered")
    ELSE Replies(Reply(FALSE, "duplicate", NoModel))

SetDefault(name) == Leaves(models, name, "default")

\* clear does not validate, and keeps the default.
Clear ==
    /\ models' = <<>> /\ reply' = Reply(TRUE, "cleared", NoModel)
    /\ kept' = (models = <<>>) /\ UNCHANGED defaultModel

\* The models that are enabled, or all of them, by their places.
Candidates(enabledOnly) == {i \in DOMAIN models : models[i].enabled \/ ~enabledOnly}

\* Those a name stands for; no name stands for the default or, if there is none, for any.
Standing(name, enabledOnly) ==
    {i \in Candidates(enabledOnly) : name \in {NoName, models[i].name}}

Foremost(places) == models[CHOOSE i \in places : \A j \in places : i <= j]

ResolveModel(name, enabledOnly) ==
    LET found == Standing(IF name = NoName THEN defaultModel ELSE name, enabledOnly)
    IN Replies(IF found = {} THEN Reply(FALSE, "notFound", NoModel)
               ELSE Reply(TRUE, IF name = NoName THEN "byDefault" ELSE "byName", Foremost(found)))

RegistryNext ==
    \/ \E m \in Configs : Len(models) < MaxModels /\ Register(<<m>>)
    \/ \E m, n \in Configs : Len(models) + 1 < MaxModels /\ Register(<<m, n>>)
    \/ \E name \in ModelNames \cup {NoName}, enabledOnly \in BOOLEAN :
          SetDefault(name) \/ ResolveModel(name, enabledOnly)
    \/ Clear

RegistrySpec == RegistryInit /\ [][RegistryNext]_registryVars

-----------------------------------------------------------------------------
\* registry.py:46-75, 88-128: a name stands for one model; a call that is refused as a
\* duplicate, or finds nothing, changes nothing; once a call that registers or sets a
\* default was accepted there is nothing wrong with the default; and what is resolved is
\* registered, and the default if there is one and no name was asked for.  (A default
\* that was refused, or whose model was cleared away, stays: every registration but its
\* own is refused from then on, though it takes effect.)
RegistrySound ==
    /\ IsInjective([i \in DOMAIN models |-> models[i].name])
    /\ reply.code \in {"duplicate", "notFound"} => kept
    /\ reply.ok /\ reply.code \in {"registered", "default"} => DefaultStands(models, defaultModel)
    /\ reply.model # NoModel => reply.model \in ToSet(models)
    /\ reply.code = "byDefault" => defaultModel \in {NoName, reply.model.name}
=============================================================================
