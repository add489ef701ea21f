------------------------------ MODULE RpcCodec ------------------------------
(***************************************************************************)
(* One call through the codecs: client/rpc_codec.go and                    *)
(* server/rpc_codec.go with the codecs of codec/ that they choose by       *)
(* content type.                                                           *)
(*                                                                         *)
(* The client picks a codec, puts the request into headers and, for some   *)
(* codecs, into an envelope in the body too.  The server picks a codec     *)
(* from the headers, reads the message back, runs the handler and writes   *)
(* the answer or the error the same way; the client reads it.  A body is   *)
(* abstracted to who made it and whether the codec can encode it; an empty *)
(* string is NoText.  The router that the server hands the request to is   *)
(* RpcRouter; at the end, the two together.                                *)
(***************************************************************************)
EXTENDS RpcRouter, TLC

NoText == ""
CxContentTypes == {"json", "protobuf", "json-rpc", "proto-rpc", "grpc", "grpc+json",
                   "octet-stream", "unknown"}
CxBodies == {"value", "bad", "frame"}   \* encodable, not encodable, bytes as they are
CxEnvelope(method, id, error) == [has |-> TRUE, method |-> method, id |-> id, error |-> error]
CxNoEnvelope == [CxEnvelope(NoText, NoText, NoText) EXCEPT !.has = FALSE]
CxNothing == [env |-> CxNoEnvelope, data |-> "none"]
CxOwn == [id |-> "7", target |-> "svc", method |-> "Foo.Bar", endpoint |-> "Foo.Bar",
          error |-> NoText]
CxBlank == [id |-> NoText, target |-> NoText, method |-> NoText, endpoint |-> NoText,
            error |-> NoText]

VARIABLES cxPc,          \* where the call is
          cxIn,          \* content type, kind of node, request, reply, whether the handler fails
          cxReq,         \* the transport message of the request
          cxSeen,        \* what the handler was called with
          cxResp,        \* the transport message of the answer
          cxOut          \* what the client returns

cxVars == <<cxPc, cxIn, cxReq, cxSeen, cxResp, cxOut>>

CxIdle == [kind |-> "none", text |-> NoText, id |-> NoText]
CxWire(type, h, path, b) == [type |-> type, header |-> h, path |-> path, body |-> b]
CxNoWire == CxWire("none", CxBlank, FALSE, CxNothing)
CxUnseen == [msg |-> CxBlank, body |-> "none"]

CodecInit ==
  /\ cxPc = "new" /\ cxIn = [type |-> "json"]
  /\ cxReq = CxNoWire /\ cxSeen = CxUnseen /\ cxResp = CxNoWire /\ cxOut = CxIdle

-----------------------------------------------------------------------------
(* Which codec.                                                            *)

(* DefaultCodecs, the same map on both sides; newCodec.                    *)
CxNewCodec(type) ==
  CASE type = "json"         -> "json"     [] type = "protobuf"  -> "proto"
    [] type = "json-rpc"     -> "jsonrpc"  [] type = "proto-rpc" -> "protorpc"
    [] type \in {"grpc", "grpc+json"} -> "grpc"
    [] type = "octet-stream" -> "bytes"    [] OTHER -> "none"

(* defaultCodecs, for nodes and messages of the old protocol.              *)
CxLegacyCodec(type) ==
  CASE type \in {"json", "json-rpc"} -> "jsonrpc"
    [] type \in {"protobuf", "proto-rpc", "octet-stream"} -> "protorpc"
    [] OTHER -> "none"

(* setupProtocol of the client: a node without a protocol gets the content *)
(* types of the old one.                                                   *)
CxOldType(type) == IF type = "json" THEN "json-rpc"
                   ELSE IF type = "protobuf" THEN "proto-rpc" ELSE type
CxSentType(in) == IF in.legacy THEN CxOldType(in.type) ELSE in.type
CxClientCodec(in) ==
  LET old == CxLegacyCodec(CxOldType(in.type))
  IN  IF in.legacy /\ old # "none" THEN old ELSE CxNewCodec(in.type)

(* setupProtocol of the server: a message that names neither service nor   *)
(* method nor endpoint is of the old protocol.                             *)
CxServerCodec(w) ==
  IF w.header.target = NoText /\ w.header.method = NoText /\ w.header.endpoint = NoText
  THEN CxLegacyCodec(w.type) ELSE CxNewCodec(w.type)

-----------------------------------------------------------------------------
(* The codecs.  Each encodes a message m of type t ("request", "response", *)
(* "error") with body b ("nil" for none) into an envelope and data.        *)

CxEncoded(env, b) == [ok |-> TRUE, bytes |-> [env |-> env, data |-> b]]
CxSilent == [ok |-> TRUE, bytes |-> CxNothing]
CxRefused == [ok |-> FALSE, bytes |-> CxNothing]

(* json, proto and bytes: the body alone; bytes refuses to write nothing.  *)
CxWritePlain(codec, b) ==
  IF b = "bad" \/ (b = "nil" /\ codec = "bytes") THEN CxRefused
  ELSE IF b = "nil" THEN CxSilent ELSE CxEncoded(CxNoEnvelope, b)

CxWriteJsonRpc(m, t, b) ==
  IF b = "bad" THEN CxRefused
  ELSE CxEncoded(CxEnvelope(IF t = "request" THEN m.method ELSE NoText, m.id,
                            IF t = "request" THEN NoText ELSE m.error), b)

(* proto-rpc: an id that is no number becomes 0; an answer that is no      *)
(* protobuf message is sent without data, a request is refused.            *)
CxSeq(id) == IF id = NoText THEN "0" ELSE id
CxWriteProtoRpc(m, t, b) ==
  IF t = "request" /\ b # "value" THEN CxRefused
  ELSE CxEncoded(CxEnvelope(m.method, CxSeq(m.id), IF t = "request" THEN NoText ELSE m.error),
                 IF b = "value" THEN b ELSE "nil")

(* grpc: an error has no body; with grpc or grpc+proto what is no protobuf *)
(* message is sent as nothing.                                             *)
CxWriteGrpc(type, t, b) ==
  IF t = "error" \/ (b = "bad" /\ type = "grpc") THEN CxSilent
  ELSE IF b = "bad" THEN CxRefused ELSE CxEncoded(CxNoEnvelope, b)

CxWrite(codec, type, m, t, b) ==
  CASE codec = "jsonrpc"  -> CxWriteJsonRpc(m, t, b)
    [] codec = "protorpc" -> CxWriteProtoRpc(m, t, b)
    [] codec = "grpc"     -> CxWriteGrpc(type, t, b)
    [] OTHER              -> CxWritePlain(codec, b)

(* ReadHeader: json-rpc and proto-rpc take the message from the envelope   *)
(* and fail without one; grpc takes service and endpoint from the path, or *)
(* from the headers; the others read nothing.                              *)
CxReadJsonRpc(m, env, t) ==
  [m EXCEPT !.id = env.id,
            !.method = IF t = "request" THEN env.method
                       ELSE IF env.id = CxOwn.id THEN CxOwn.method ELSE NoText,
            !.error = IF t = "request" THEN @ ELSE env.error]
CxReadProtoRpc(m, env, t) ==
  [m EXCEPT !.id = env.id, !.method = env.method,
            !.error = IF t = "request" THEN @ ELSE env.error]
CxReadGrpc(m, w) ==
  [m EXCEPT !.target = IF w.path THEN CxOwn.target ELSE w.header.target,
            !.endpoint = IF w.path THEN CxOwn.endpoint ELSE w.header.endpoint]

CxReadHeader(codec, m, w, t) ==
  CASE codec = "jsonrpc"  -> CxReadJsonRpc(m, w.body.env, t)
    [] codec = "protorpc" -> CxReadProtoRpc(m, w.body.env, t)
    [] codec = "grpc"     -> CxReadGrpc(m, w)
    [] OTHER              -> m
CxUnreadable(codec, w) == codec \in {"jsonrpc", "protorpc"} /\ ~w.body.env.has

(* ReadBody: bytes that the codec did not write itself decode only where   *)
(* there is no framing; no data is a zero value, or EOF to json and grpc.  *)
CxReadBody(codec, b) ==
  IF b.data = "frame" /\ codec = "grpc" THEN "fail"
  ELSE IF b.data \notin {"none", "nil"} THEN b.data
  ELSE IF codec \in {"json", "grpc"} THEN "fail" ELSE "zero"

-----------------------------------------------------------------------------
(* The two rpcCodecs.                                                      *)

(* getHeaders: what the codec did not set is taken from the header.        *)
CxGetHeaders(m, h) == [f \in DOMAIN m |-> IF m[f] # NoText THEN m[f] ELSE h[f]]
(* setHeaders: what the message has is put into the header.                *)
CxSetHeaders(h, m) == [f \in DOMAIN h |-> IF m[f] # NoText THEN m[f] ELSE h[f]]

CxFails(text, id) == [kind |-> "error", text |-> text, id |-> id]

CxStart(in) ==
  /\ cxPc = "new" /\ cxIn' = in
  /\ IF CxClientCodec(in) = "none"
     THEN cxPc' = "done" /\ cxOut' = CxFails("unsupported", NoText)
     ELSE cxPc' = "writing" /\ UNCHANGED cxOut
  /\ UNCHANGED <<cxReq, cxSeen, cxResp>>

(* Write of the client: a frame is sent as it is.                          *)
CxClientWrite ==
  /\ cxPc = "writing"
  /\ LET codec == CxClientCodec(cxIn)
         e == IF cxIn.body = "frame" THEN CxEncoded(CxNoEnvelope, "frame")
              ELSE CxWrite(codec, cxIn.type, CxOwn, "request", cxIn.body)
     IN  IF e.ok
         THEN /\ cxReq' = CxWire(CxSentType(cxIn), CxOwn,
                                 codec = "grpc" /\ cxIn.body # "frame", e.bytes)
              /\ cxPc' = "sent" /\ UNCHANGED cxOut
         ELSE /\ cxPc' = "done" /\ cxOut' = CxFails("encode", NoText)
              /\ UNCHANGED cxReq
  /\ UNCHANGED <<cxIn, cxSeen, cxResp>>

(* ReadHeader and ReadBody of the server, and the handler.                 *)
CxServerRead ==
  /\ cxPc = "sent"
  /\ LET codec == CxServerCodec(cxReq)
         body == IF cxReq.body = CxNothing THEN "zero" ELSE CxReadBody(codec, cxReq.body)
         read == CxReadHeader(codec, CxGetHeaders(CxBlank, cxReq.header), cxReq, "request")
     IN  IF CxUnreadable(codec, cxReq) \/ body = "fail"
         THEN cxPc' = "refused" /\ UNCHANGED cxSeen
         ELSE cxPc' = "handled" /\ cxSeen' = [msg |-> read, body |-> body]
  /\ UNCHANGED <<cxIn, cxReq, cxResp, cxOut>>

(* Write of the server.  A body that cannot be encoded is an error in the  *)
(* header of a message without a body, if the codec can write nothing.     *)
CxServerSent(codec, m, t, h, b) ==
  LET e == IF b = "frame" THEN CxEncoded(CxNoEnvelope, "frame") ELSE CxWrite(codec, cxReq.type, m, t, b)
      hdr == CxSetHeaders(h, m)
  IN  IF e.ok THEN CxWire(cxReq.type, hdr, FALSE, e.bytes)
      ELSE IF CxWrite(codec, cxReq.type, m, t, "nil").ok
      THEN CxWire(cxReq.type, [hdr EXCEPT !.error = "encode"], FALSE, CxNothing)
      ELSE CxNoWire

(* Mutant: the error stays in the message and out of the headers.          *)
CxErrorWireBare(codec, text) ==
  CxServerSent(codec, [CxBlank EXCEPT !.error = NoText], "error", cxReq.header, "nil")

(* serveReq: an error is written into the headers of the request.          *)
CxErrorWire(codec, text) ==
  CxServerSent(codec, [CxBlank EXCEPT !.error = text], "error", cxReq.header, "nil")

(* sendResponse; if it fails, and if the handler or the read failed, the   *)
(* error is written instead.                                               *)
CxServerAnswer ==
  /\ cxPc \in {"handled", "refused"}
  /\ LET codec == CxServerCodec(cxReq)
         reply == CxServerSent(codec, [CxBlank EXCEPT !.id = cxSeen.msg.id], "response",
                               CxBlank, cxIn.reply)
     IN  cxResp' = IF cxPc = "refused" THEN CxErrorWire(codec, "read")
                   ELSE IF cxIn.fails THEN CxErrorWire(codec, "fail")
                   ELSE IF reply # CxNoWire THEN reply
                   ELSE CxErrorWire(codec, "encode")
  /\ cxPc' = "answered"
  /\ UNCHANGED <<cxIn, cxReq, cxSeen, cxOut>>

(* ReadHeader, Recv and ReadBody of the client; without an answer the call *)
(* waits for its timeout.                                                  *)
CxClientRead ==
  /\ cxPc = "answered" /\ cxPc' = "done"
  /\ LET codec == CxClientCodec(cxIn)
         read == CxGetHeaders(CxReadHeader(codec, CxBlank, cxResp, "response"), cxResp.header)
         body == CxReadBody(codec, cxResp.body)
     IN  cxOut' = IF cxResp = CxNoWire THEN CxFails("timeout", NoText)
                  ELSE IF CxUnreadable(codec, cxResp)
                  THEN CxFails("EOF", CxGetHeaders(CxBlank, cxResp.header).id)
                  ELSE IF read.error # NoText THEN CxFails(read.error, read.id)
                  ELSE IF body = "fail" THEN CxFails("EOF", read.id)
                  ELSE [kind |-> "ok", text |-> body, id |-> read.id]
  /\ UNCHANGED <<cxIn, cxReq, cxSeen, cxResp>>

CodecNext ==
  \/ \E in \in [type : CxContentTypes, legacy : BOOLEAN, body : CxBodies,
                reply : CxBodies, fails : BOOLEAN] : CxStart(in)
  \/ CxClientWrite \/ CxServerRead \/ CxServerAnswer \/ CxClientRead

-----------------------------------------------------------------------------
CxSameCodec == CxClientCodec(cxIn) = CxServerCodec(cxReq)

(* The two ends of a call understand each other.  They choose the same     *)
(* codec, except for octet-stream to a node that names no protocol.  The   *)
(* handler sees the id, service and endpoint of the request and the body   *)
(* that was sent.  The client returns success only with the reply of a     *)
(* handler that succeeded, and under its own id; if the handler failed, it *)
(* returns that error, and if the request or the reply could not be        *)
(* encoded or read it returns some error, except where the code encodes    *)
(* such a body as nothing (proto-rpc answers, grpc requests).  With        *)
(* octet-stream errors are not written at all.                             *)
ExchangeIsFaithful ==
  /\ cxPc = "sent" => (CxSameCodec \/ (cxIn.legacy /\ cxIn.type = "octet-stream"))
  /\ cxPc = "handled" /\ CxSameCodec =>
       /\ \A f \in {"id", "target", "endpoint"} : cxSeen.msg[f] = CxOwn[f]
       /\ cxSeen.body = IF cxIn.body = "bad" THEN "zero" ELSE cxIn.body
       /\ cxIn.body = "bad" => CxServerCodec(cxReq) = "grpc"
  /\ cxPc = "done" /\ cxReq # CxNoWire /\ CxSameCodec =>
       LET codec == CxServerCodec(cxReq)
       IN  /\ cxOut.kind = "ok" =>
                /\ cxSeen # CxUnseen /\ ~cxIn.fails /\ cxOut.id = CxOwn.id
                /\ cxOut.text = cxIn.reply \/ (cxIn.reply = "bad" /\ codec = "protorpc")
           /\ cxSeen # CxUnseen /\ cxIn.fails /\ codec # "bytes" => cxOut.text = "fail"
           /\ cxOut.text = "timeout" => codec = "bytes"

(* A call is answered with its own answer: by the router, whose objects    *)
(* calls share, and by the codecs at the two ends of the wire.             *)
CallsAnswered == RouterAnswersOwn /\ ExchangeIsFaithful

=============================================================================
