------------------------------ MODULE MCMedia ------------------------------
(* The views of a Screen, and the compositor all Screens share: the two are *)
(* independent of each other, so that an instance runs one of them, the     *)
(* part, and leaves the other in its initial state.                         *)
EXTENDS ScreenViews, SwayComputer, TLC

VARIABLE part

MediaInit == ViewsInit /\ SwayInit /\ part \in {"views", "sway"}

MediaNext ==
  \/ part = "views" /\ ViewsNext /\ UNCHANGED <<part, swayVars>>
  \/ part = "sway" /\ SwayNext /\ UNCHANGED <<part, viewVars>>

\* The fairness of both, for the part that runs.
MediaFairness ==
  /\ \A s \in Viewers :
       /\ WF_viewVars(part = "views" /\ ViewAwaits(s))
       /\ WF_viewVars(part = "views" /\ Terminated(s))
  /\ \A w \in Wayvncs : WF_viewVars(part = "views" /\ WayvncAwaits(w))
  /\ WF_swayVars(part = "sway" /\ OpStep)
  /\ WF_swayVars(part = "sway" /\ (ReconcileBegins \/ Recovered \/ DaemonStarts))
  /\ \A s \in Surfaces : SF_swayVars(part = "sway" /\ StartBegins(s))

MediaSpec == MediaInit /\ [][MediaNext]_<<viewVars, swayVars, part>> /\ MediaFairness
=============================================================================
