-------------------------------- MODULE MCBay --------------------------------
(***************************************************************************)
(* The bay with every scene that a step of a scenario shows.               *)
(***************************************************************************)
EXTENDS Bay

Story == INSTANCE StationStory

MCScenes ==
    LET playback == Story!Playback
    IN  UNION {{Story!SceneFor(playback[id][k]) : k \in DOMAIN playback[id]} : id \in Story!Ids}
MCIcons == {"bolt", "sync", "pause", "alert", "syncBroken", "check", "power"}
=============================================================================
