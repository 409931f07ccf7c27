---------------------------- MODULE MCVideoJobs ----------------------------
(***************************************************************************)
(* Instances of VideoJobs for TLC: a Douyin link that has only the free    *)
(* resolver's script (there are no cookies), and a direct link that falls  *)
(* back to yt-dlp.                                                         *)
(***************************************************************************)
EXTENDS VideoJobs, TLC

CONSTANTS j1, j2, douyin1, media1

MCTools == (douyin1 :> <<"script">>) @@ (media1 :> <<"direct", "ytdlp">>)

\* The ids start alike: what begins with j2 and an underscore begins with j1 and one.
MCGlobbed == [i \in Ids |-> {p \in Output : p.id = i \/ i = j1}]
=============================================================================
