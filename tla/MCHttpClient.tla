---------------------------- MODULE MCHttpClient ----------------------------
(* HttpClient on two hosts, with streams that may outlive their request.     *)
EXTENDS HttpClient
=============================================================================
