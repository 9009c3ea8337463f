----------------------------- MODULE MCServices -----------------------------
(* Ten services that do not act on one another, each checked by itself: an  *)
(* instance runs one of them, the part, and leaves the others in their       *)
(* initial states.  Two of them are run in two halves.                       *)
EXTENDS Transcript, EventReplay, WebControl, Dictation, Composer, Plugins, ScreenHelpers,
        Avatars, Attention, Launcher

VARIABLE part

ServicesInit ==
  /\ part \in {"blocks", "tools", "replay", "control", "dictation", "composer",
               "sources", "skills", "helpers", "avatars", "attention",
               "launcher"}
  /\ TranscriptInit /\ ReplayInit /\ WebInit /\ Init /\ ComposerInit /\ PluginsInit /\ HelpersInit
  /\ AvatarsInit /\ AttentionInit /\ LauncherInit
  /\ part # "avatars" => profile.kind = "generated"
  /\ part # "attention" => view.shows = CHOOSE h \in Talks : TRUE
  /\ part # "launcher" => /\ apps = {}
                          /\ \A l \in Launches : launch[l].commit = CHOOSE c \in Commits : TRUE
  /\ IF part = "replay" THEN \E e \in log.events : e.bot = CHOOSE b \in Topics : TRUE
     ELSE log.events = {}
  /\ part # "dictation" => state = "idle" /\ eager = FALSE

ServicesNext ==
  /\ UNCHANGED part
  /\ \/ /\ part \in {"blocks", "tools"} /\ TranscriptNext
        /\ IF part = "blocks" THEN /\ native'.events < MaxEvents
                                  /\ \A t \in TurnIds : sess'[t].tool = Fresh.tool
           ELSE native'.lapses = 0 /\ \A t \in TurnIds : sess'[t].blocks = 0
        /\ UNCHANGED <<replayVars, webVars, vars, composerVars, pluginVars, helperVars,
                       avatarVars, attentionVars, launcherVars>>
     \/ /\ part = "replay" /\ ReplayNext
        /\ UNCHANGED <<transcriptVars, webVars, vars, composerVars, pluginVars, helperVars,
                       avatarVars, attentionVars, launcherVars>>
     \/ /\ part = "control" /\ WebNext
        /\ UNCHANGED <<transcriptVars, replayVars, vars, composerVars, pluginVars, helperVars,
                       avatarVars, attentionVars, launcherVars>>
     \/ /\ part = "dictation" /\ Next
        /\ UNCHANGED <<transcriptVars, replayVars, webVars, composerVars, pluginVars,
                       helperVars, avatarVars, attentionVars, launcherVars>>
     \/ /\ part = "composer" /\ ComposerNext
        /\ UNCHANGED <<transcriptVars, replayVars, webVars, vars, pluginVars, helperVars,
                       avatarVars, attentionVars, launcherVars>>
     \/ /\ part \in {"sources", "skills"} /\ PluginsNext
        /\ IF part = "sources" THEN skill'.install = NoInstall /\ ~skill'.there
           ELSE config' = config
        /\ UNCHANGED <<transcriptVars, replayVars, webVars, vars, composerVars, helperVars,
                       avatarVars, attentionVars, launcherVars>>
     \/ /\ part = "helpers" /\ HelpersNext
        /\ UNCHANGED <<transcriptVars, replayVars, webVars, vars, composerVars, pluginVars,
                       avatarVars, attentionVars, launcherVars>>
     \/ /\ part = "avatars" /\ AvatarsNext
        /\ UNCHANGED <<transcriptVars, replayVars, webVars, vars, composerVars, pluginVars,
                       helperVars, attentionVars, launcherVars>>
     \/ /\ part = "attention" /\ AttentionNext
        /\ UNCHANGED <<transcriptVars, replayVars, webVars, vars, composerVars, pluginVars,
                       helperVars, avatarVars, launcherVars>>
     \/ /\ part = "launcher" /\ LauncherNext
        /\ UNCHANGED <<transcriptVars, replayVars, webVars, vars, composerVars, pluginVars,
                       helperVars, avatarVars, attentionVars>>

\* The fairness of the two services that state any, for the part that runs.
ServicesFairness ==
  /\ WF_replayVars(part = "replay" /\ (Connect \/ Hello \/ ReceiveMessage))
  /\ WF_replayVars(part = "replay" /\ ((cache.stale /\ Fetch) \/ FetchReads \/ FetchAnswers))
  /\ WF_helperVars(part = "helpers" /\ Exchange) /\ WF_helperVars(part = "helpers" /\ Ending)
  /\ WF_helperVars(part = "helpers" /\ HelperEnds)
  /\ \A v \in Views : WF_helperVars(part = "helpers" /\ StreamProgress(v))

ServicesSpec ==
  /\ ServicesInit
  /\ [][ServicesNext]_<<part, transcriptVars, replayVars, webVars, vars, composerVars,
                        pluginVars, helperVars, avatarVars, attentionVars, launcherVars>>
  /\ ServicesFairness
=============================================================================
