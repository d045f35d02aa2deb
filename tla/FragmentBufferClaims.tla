------------------------ MODULE FragmentBufferClaims ------------------------
(***************************************************************************)
(* What the repository's docs, comments and tests say of reassembly and    *)
(* the code does not do.  Each is refuted by a run of its own.             *)
(***************************************************************************)
EXTENDS FragmentBuffer

\* pg_ais.h: "Buffer to hold fragments of a multipart AIS message": the
\* parts joined into a reply carry one message id.
OneMessagePerReply ==
  \A i, j \in DOMAIN reply.from :
     reply.from[i].message_id = reply.from[j].message_id

\* parse_ais.c: "Splits a raw NMEA 0183 sentence ... into its components", of
\* "!AIVDM,1,1,,A,...*hh": a sentence whose payload decodes is not refused by
\* an empty buffer as undecodable.
LoneSentenceDecodes ==
  [][\A s \in Sentences :
        Undecodable(s) /\ received = 0 => Decode(s[6].pay) # "PARSE_OK"]_vars

\* ais_core.c: free_ais_message "Releases memory from dynamic fields": freeing
\* what a decode left in msg does not end the backend.
NoCrash == reply.kind # "crash"
=============================================================================
