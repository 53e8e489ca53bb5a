----------------------------- MODULE EpisodeState -----------------------------
(***************************************************************************)
(* The lifecycle of an episode (src/state/machine.py): the states, the     *)
(* transition table, and what transition_to() does to a store.  A store is *)
(* what state.json holds: the current state, the state it came from, and   *)
(* the state a pause interrupted.                                          *)
(***************************************************************************)

NoState == "NONE"

\* _TRANSITIONS, without the three states every state may go to.
Successors == [
    REQUEST_RECEIVED           |-> {"RESEARCHING"},
    RESEARCHING                |-> {"PLANNING"},
    PLANNING                   |-> {"WAITING_PLAN_APPROVAL"},
    WAITING_PLAN_APPROVAL      |-> {"SCRIPTING", "WAITING_BUDGET_APPROVAL"},
    SCRIPTING                  |-> {"SCRIPT_QA", "GENERATING_AUDIO"},
    SCRIPT_QA                  |-> {"CHARACTER_DESIGN", "SCRIPTING", "GENERATING_AUDIO"},
    CHARACTER_DESIGN           |-> {"STORYBOARDING"},
    STORYBOARDING              |-> {"GENERATING_AUDIO", "GENERATING_IMAGES"},
    GENERATING_AUDIO           |-> {"STORYBOARDING", "GENERATING_IMAGES"},
    GENERATING_IMAGES          |-> {"VISUAL_QA", "LOCAL_ANIMATION"},
    VISUAL_QA                  |-> {"PLANNING_ANIMATION", "GENERATING_IMAGES"},
    PLANNING_ANIMATION         |-> {"LOCAL_ANIMATION"},
    LOCAL_ANIMATION            |-> {"CLOUD_VIDEO_GENERATION", "ANIMATION_QA", "ASSEMBLING"},
    CLOUD_VIDEO_GENERATION     |-> {"WAITING_BUDGET_APPROVAL", "ANIMATION_QA", "LOCAL_ANIMATION"},
    WAITING_BUDGET_APPROVAL    |-> {"CLOUD_VIDEO_GENERATION", "LOCAL_ANIMATION"},
    ANIMATION_QA               |-> {"ASSEMBLING"},
    ASSEMBLING                 |-> {"FINAL_QA"},
    FINAL_QA                   |-> {"WAITING_THUMBNAIL_APPROVAL", "ASSEMBLING"},
    WAITING_THUMBNAIL_APPROVAL |-> {"WAITING_VIDEO_APPROVAL", "ASSEMBLING"},
    WAITING_VIDEO_APPROVAL     |-> {"WAITING_FINAL_APPROVAL", "ASSEMBLING"},
    WAITING_FINAL_APPROVAL     |-> {"UPLOADING", "ASSEMBLING"},
    UPLOADING                  |-> {"PUBLISHED"},
    PUBLISHED                  |-> {},
    PAUSED                     |-> {},
    FAILED                     |-> {},
    CANCELLED                  |-> {} ]

EpisodeStates == DOMAIN Successors

Store == [cur : EpisodeStates, prev : EpisodeStates \cup {NoState},
          paused : EpisodeStates \cup {NoState}]

\* can_transition_to()
CanTransition(st, to) ==
    \/ to \in {st.cur, "PAUSED", "FAILED", "CANCELLED"}
    \/ st.cur = "PAUSED" /\ to = st.paused
    \/ st.cur = "FAILED" /\ to = st.prev
    \/ to \in Successors[st.cur]

\* transition_to(), where it is allowed
TransitionTo(st, to) ==
    IF to = st.cur THEN st
    ELSE IF to = "PAUSED" THEN [st EXCEPT !.cur = to, !.paused = st.cur]
    ELSE IF st.cur = "PAUSED" THEN [cur |-> to, prev |-> "PAUSED", paused |-> NoState]
    ELSE IF st.cur = "FAILED" THEN [st EXCEPT !.cur = to]
    ELSE [st EXCEPT !.cur = to, !.prev = st.cur]

\* from_dict(to_dict()): the interrupted state comes back only into a pause.
Reloaded(st) == IF st.cur = "PAUSED" THEN st ELSE [st EXCEPT !.paused = NoState]

NewStore == [cur |-> "REQUEST_RECEIVED", prev |-> NoState, paused |-> NoState]
=============================================================================
