----------------------------- MODULE MCSniffer -----------------------------
(***************************************************************************)
(* A TLC instance of Sniffer: POP3 logins through a tunnel, Basic          *)
(* credentials in a request and in a tunnel to port 80.                    *)
(***************************************************************************)
EXTENDS Sniffer

\* One byte or all of them, or all but one
SomeOrAll(n) == {1, n - 1, n} \intersect 1 .. n

Origin(text) == [from |-> "origin", text |-> text]
Client(text) == [from |-> "client", text |-> text]

Pop3Login(user, password) == [protocol |-> "POP3", user |-> user, password |-> password]
BasicLogin(text) == [protocol |-> "HTTP", text |-> text]

Tunnel(port, turns, login) ==
  [connect |-> TRUE, port |-> port, opening |-> "\r\n", turns |-> turns, login |-> login]

Request(opening, login) ==
  [connect |-> FALSE, port |-> 80, opening |-> opening,
   turns |-> <<Origin("HTTP/1.0 200 OK\r\n\r\n")>>, login |-> login]

\* A login of a user with a password, and what the server answers to the two
Pop3(user, pass, toUser, toPass, login) ==
  Tunnel(110, <<Origin("+OK\r\n"), Client(user), Origin(toUser), Client(pass), Origin(toPass)>>, login)

SomeSessions ==
  {Pop3("USER u\r\n", "PASS p\r\n", "+OK\r\n", "+OK\r\n", Pop3Login("u", "p")),
   Pop3("user u\r\n", "pass p\r\n", "+OK\r\n", "-ERR\r\n", NoLogin),
   Pop3("USER u\r\n", "PASS p\r\n", "-NO\r\n", "-NO\r\n", NoLogin),
   Pop3("USER abc\r\n", "PASS p\r\n", "+OK\r\n", "+OK\r\n", Pop3Login("abc", "p")),
   Tunnel(110, <<Origin("+OK\r\n"), Client("USER u\r\nPASS p\r\n"), Origin("+OK\r\n+OK\r\n")>>,
          Pop3Login("u", "p")),
   Tunnel(80, <<Client("GET / HTTP/1.0\r\nAuthorization: Basic dTpw\r\n\r\n"),
                Origin("HTTP/1.0 200 OK\r\n")>>, BasicLogin("u:p")),
   Tunnel(443, <<Client("USER u\r\n"), Origin("+OK\r\n")>>, NoLogin),
   Request("Authorization: Basic dTpw\r\n\r\n", BasicLogin("u:p")),
   Request("authorization:\tBASIC dTo=\r\n\r\n", BasicLogin("u:")),
   Request("Authorization: Basic dQ==\r\n\r\n", BasicLogin("u")),
   Request("Authorization: Basic dTpwcHBw\r\n\r\n", BasicLogin("u:pppp")),
   Request("Authorization: Basic dTp\r\n\r\n", NoLogin),
   Request("Accept: a\r\n\r\n", NoLogin)}
=============================================================================
