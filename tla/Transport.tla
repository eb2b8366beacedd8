------------------------------ MODULE Transport ------------------------------
(***************************************************************************)
(* pyhaul.transport: what the adapters make of six HTTP libraries.  A      *)
(* library is seen through the exceptions it raises; an adapter turns each *)
(* into one of pyhaul's transport errors, or lets it through, and the      *)
(* engine and the command line decide on that alone whether to try again.  *)
(*                                                                         *)
(* Each adapter is a record: the table of its error map, which of the      *)
(* exceptions stand for trouble with the network, a read timeout and a     *)
(* connection that cannot be closed (these three are the libraries' own),  *)
(* and whether GET and HEAD follow redirects when the caller's options     *)
(* leave it open.                                                          *)
(***************************************************************************)
EXTENDS Naturals, Sequences

Kind == {"connection", "tls", "http", "unsupported", "transport", "unmapped"}

RequestsLikeErrors ==
    [HTTPError |-> "http", SSLError |-> "tls",
     RequestException |-> "connection", Urllib3HTTPError |-> "connection",
     OtherError |-> "unmapped"]

(* Mutant: the clause of TimeoutException is missing; RequestError's       *)
(* catches it.                                                             *)
HttpxErrorsTimeless ==
    [HTTPStatusError |-> "http", UnsupportedProtocol |-> "unsupported",
     LocalProtocolError |-> "transport", RemoteProtocolError |-> "connection",
     ConnectError |-> "connection", ReadError |-> "connection",
     WriteError |-> "connection", CloseError |-> "connection",
     ProxyError |-> "connection", TimeoutException |-> "transport",
     RequestError |-> "transport", OtherError |-> "unmapped"]

HttpxErrors ==
    [HTTPStatusError |-> "http", UnsupportedProtocol |-> "unsupported",
     LocalProtocolError |-> "transport", RemoteProtocolError |-> "connection",
     ConnectError |-> "connection", ReadError |-> "connection",
     WriteError |-> "connection", CloseError |-> "connection",
     ProxyError |-> "connection", TimeoutException |-> "connection",
     RequestError |-> "transport", OtherError |-> "unmapped"]

Urllib3Errors ==
    [SSLError |-> "tls", ProxyError |-> "connection",
     ConnectTimeoutError |-> "connection", ReadTimeoutError |-> "connection",
     IncompleteRead |-> "connection", ProtocolError |-> "connection",
     DecodeError |-> "transport", HTTPError |-> "connection",
     OtherError |-> "unmapped"]

AiohttpErrors ==
    [ClientResponseError |-> "http", ClientConnectorCertificateError |-> "tls",
     ClientConnectorSSLError |-> "tls", ServerFingerprintMismatch |-> "tls",
     ServerTimeoutError |-> "connection", ClientConnectionError |-> "connection",
     ClientPayloadError |-> "connection", NonHttpUrlClientError |-> "unsupported",
     ClientError |-> "transport", OtherError |-> "unmapped"]

WreqErrors ==
    [StatusError |-> "http", TlsError |-> "tls", ConnectionError |-> "connection",
     ProxyConnectionError |-> "connection", ConnectionResetError |-> "connection",
     TimeoutError |-> "connection", BodyError |-> "connection",
     DecodingError |-> "connection", BuilderError |-> "unsupported",
     RequestError |-> "transport", RedirectError |-> "transport",
     RustPanic |-> "unmapped", OtherError |-> "unmapped"]

-----------------------------------------------------------------------------
(* The adapters.  "client": as the client was configured.                  *)

RequestsAdapter ==
    [errors |-> RequestsLikeErrors, timeout |-> "RequestException", closing |-> {},
     network |-> {"RequestException", "Urllib3HTTPError"},
     redirects |-> [GET |-> "yes", HEAD |-> "no"]]

NiquestsAdapter ==
    [errors |-> RequestsLikeErrors, timeout |-> "RequestException", closing |-> {},
     network |-> {"RequestException", "Urllib3HTTPError"},
     redirects |-> [GET |-> "yes", HEAD |-> "no"]]

HttpxAdapter ==
    [errors |-> HttpxErrors, timeout |-> "TimeoutException", closing |-> {"CloseError"},
     network |-> {"RemoteProtocolError", "ConnectError", "ReadError", "WriteError",
                  "CloseError", "ProxyError", "TimeoutException"},
     redirects |-> [GET |-> "client", HEAD |-> "client"]]

Urllib3Adapter ==
    [errors |-> Urllib3Errors, timeout |-> "ReadTimeoutError", closing |-> {},
     network |-> {"ProxyError", "ConnectTimeoutError", "ReadTimeoutError",
                  "IncompleteRead", "ProtocolError"},
     redirects |-> [GET |-> "yes", HEAD |-> "yes"]]

SyncWreqAdapter ==
    [errors |-> WreqErrors, timeout |-> "TimeoutError", closing |-> {},
     network |-> {"ConnectionError", "ProxyConnectionError", "ConnectionResetError",
                  "TimeoutError", "BodyError", "DecodingError"},
     redirects |-> [GET |-> "client", HEAD |-> "client"]]

AsyncNiquestsAdapter == NiquestsAdapter

AsyncHttpxAdapter == HttpxAdapter

AsyncAiohttpAdapter ==
    [errors |-> AiohttpErrors, timeout |-> "ServerTimeoutError", closing |-> {},
     network |-> {"ServerTimeoutError", "ClientConnectionError", "ClientPayloadError"},
     redirects |-> [GET |-> "yes", HEAD |-> "no"]]

AsyncWreqAdapter == SyncWreqAdapter

SyncAdapter ==
    [requests |-> RequestsAdapter, niquests |-> NiquestsAdapter, httpx |-> HttpxAdapter,
     urllib3 |-> Urllib3Adapter, wreq |-> SyncWreqAdapter]

AsyncAdapter ==
    [niquests |-> AsyncNiquestsAdapter, httpx |-> AsyncHttpxAdapter,
     aiohttp |-> AsyncAiohttpAdapter, wreq |-> AsyncWreqAdapter]

(* Whether a request follows redirects: the option of the call, else the   *)
(* adapter's or library's default, else the setting of the client.         *)
Follows(adapter, method, option, client) ==
    CASE option # "unset" -> option = "yes"
      [] adapter.redirects[method] = "client" -> client
      [] OTHER -> adapter.redirects[method] = "yes"
=============================================================================
