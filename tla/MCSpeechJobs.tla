----------------------------- MODULE MCSpeechJobs -----------------------------
(* SpeechJobs on small sets of questions and requests. *)
EXTENDS SpeechJobs, TLC

\* Requests are interchangeable, and so are questions of which all or none are
\* prefetched.
Symmetry == Permutations(Questions) \cup Permutations(Requests)
=============================================================================
