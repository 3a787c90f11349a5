------------------------------ MODULE MCAccounts ------------------------------
(* Plans of three to five requests, one for each way they can meet. *)
EXTENDS Accounts

MCPlans == {
  <<"register", "register", "verify">>,
  <<"create", "login", "refresh", "refresh", "logout">>,
  <<"create", "login", "logout", "login">>,
  <<"create", "login", "logout", "logout", "login">>,
  <<"create", "login", "close", "refresh">>,
  <<"create", "code", "verify", "verify", "verify">>,
  <<"create", "code", "code", "verify">>,
  <<"code", "register", "code", "code">>,
  <<"create", "code", "login", "verify">>,
  <<"create", "login", "login", "login", "login">>,
  <<"create", "close", "close", "login">>}
================================================================================
