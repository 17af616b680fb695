--------------------------- MODULE MCDistribution ---------------------------
(* Distribution with a person who relies on the settings file and a job whose *)
(* environment says mode s3, one config_server, a bucket with one prefix and  *)
(* without, and one pod.                                                      *)
EXTENDS Distribution

CONSTANTS person, cron, pod, url, bucket, team, secret, cds, lds

MCOperator == {person, cron}
MCPod == {pod}
MCClient == {person, cron, pod}
MCLogin == {[place |-> url, token |-> secret], [place |-> url, token |-> Unset],
            [place |-> <<bucket, team>>, token |-> Unset]}
MCServer == {url}
MCBucket == {<<bucket, Unset>>, <<bucket, team>>}
MCFiles == <<cds, lds>>
MCName == {cds, lds}
MCValue == {Unset, url, bucket, team, secret, "http", "s3", "ftp"}
MCEnv ==
  [o \in MCOperator |->
     IF o = person THEN NoSettings
     ELSE [NoSettings EXCEPT !["mode"] = "s3", !["s3.bucket"] = bucket]]
ToServer == [NoSettings EXCEPT !["mode"] = "http", !["http.api-token"] = secret]
ToBucket == [NoSettings EXCEPT !["s3.bucket"] = bucket, !["s3.prefix"] = team]
MCPreset == {ToServer, ToBucket}
MCArgument == {<<"mode", "ftp">>, <<"http.api-token", Unset>>, <<"s3.prefix", Unset>>}

\* The person begins with the settings for the pod's kind of source, and the job,
\* whose pushes go to the bucket, is there beside a pod that is refused.
MCInit ==
  /\ Init
  /\ settings = IF login[pod].place \in MCBucket THEN ToBucket ELSE ToServer
  /\ \/ left = [o \in MCOperator |-> IF o = person THEN 2 ELSE 0]
     \/ left = [o \in MCOperator |-> IF o = person THEN 2 ELSE 1]
        /\ login[pod] = [place |-> url, token |-> Unset]

MCSpec == MCInit /\ [][Next]_vars /\ Fairness
=============================================================================
