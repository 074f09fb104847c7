-------------------------------- MODULE MCD1Udp --------------------------------
(* D1Udp with the calls of d1_test_client.c: connect, twice a ping and the     *)
(* pong that answers it, disconnect.                                           *)
EXTENDS D1Udp

TestClient == <<"send", "send", "recv", "send", "recv", "send">>

===============================================================================
