--------------------------- MODULE ProductWrapper ---------------------------
(* The functions a product calls (host-api-wrapper): which method of the     *)
(* host API each of them costs, and what a signer does for a signature.  A   *)
(* table maps the functions of a source file to methods; functions that make *)
(* the same call are one entry.                                             *)
EXTENDS HostProtocol

Of(trait, names) == [f \in DOMAIN names |-> <<trait, names[f]>>]

\* accounts.ts: identity, login and keys; each call yields a Result.
AccountFunctions == Of("account", [
    getUserId |-> "getUserId", requestLogin |-> "requestLogin", getProductAccount |-> "getAccount",
    registerRingVrfKey |-> "registerRingVrfKey", listRingVrfKeys |-> "listRingVrfKeys",
    getContextualAlias |-> "getAccountAlias", getLegacyAccounts |-> "getLegacyAccounts"])

\* What a key or an account signs without a transaction.
ProofFunctions == Of("account", [
    createRingVRFProof |-> "createAccountProof", ringVrfSign |-> "ringVrfSign", signVrf |-> "signVrf"])

ConnectionFunctions == Of("account", [subscribeAccountConnectionStatus |-> "connectionStatusSubscribe"])

\* Signatures over the bytes as they are, for a product and a legacy account.
UnwatermarkedFunctions == Of("signing", [
    ofProduct |-> "signRawUnwatermarkedDeprecated",
    ofLegacy |-> "signRawUnwatermarkedDeprecatedWithLegacyAccount"])

\* chat.ts
ChatFunctions == Of("chat", [
    registerRoom |-> "createRoom", registerBot |-> "registerBot", sendMessage |-> "postMessage",
    subscribeChatList |-> "listSubscribe", subscribeAction |-> "actionSubscribe"])

CoinFunctions == Of("coinPayment", [
    createPurse |-> "createPurse", queryPurse |-> "queryPurse", createReceivable |-> "createReceivable",
    createCheque |-> "createCheque", rebalancePurse |-> "rebalancePurse", deletePurse |-> "deletePurse",
    deposit |-> "deposit", refund |-> "refund", listenForPayment |-> "listenForPayment"])

PaymentFunctions == Of("payment", [
    subscribeBalance |-> "balanceSubscribe", topUp |-> "topUp", subscribeTopUpStatus |-> "topUpStatusSubscribe",
    requestPayment |-> "request", subscribePaymentStatus |-> "statusSubscribe"])

\* Bytes, strings and JSON are read and written alike.
StorageFunctions == Of("localStorage", [
    read |-> "read", write |-> "write", clear |-> "clear", subscribe |-> "subscribe"])

StatementFunctions == Of("statementStore", [
    subscribe |-> "subscribe", createProof |-> "createProof", submit |-> "submit"])

NotificationFunctions == Of("notifications", [push |-> "sendPushNotification", cancel |-> "cancelPushNotification"])
PreimageFunctions == Of("preimage", [lookup |-> "lookupSubscribe", submit |-> "submit"])
PocketFunctions == Of("pocket", [subscribeCards |-> "listSubscribe", removeCard |-> "removeCard"])
WorkerFunctions == Of("worker", [beginOperation |-> "beginOperation", endOperation |-> "endOperation"])
SystemFunctions == Of("system", [info |-> "info", getProductContext |-> "getProductContext"])
PermissionFunctions == Of("permissions", [
    requestDevicePermission |-> "requestDevicePermission", requestPermission |-> "requestRemotePermission"])
ContactFunctions == Of("contacts", [pick |-> "pick"])
EntropyFunctions == Of("entropy", [deriveEntropy |-> "derive"])
ThemeFunctions == Of("theme", [subscribeTheme |-> "subscribe"])
LocaleFunctions == Of("locale", [subscribeLocale |-> "subscribe"])

\* papiProvider.ts: the methods its JSON-RPC requests become (see PapiFollows).
ChainFunctions == Of("chain", [
    chainHead_v1_follow |-> "followHeadSubscribe", chainHead_v1_header |-> "getHeadHeader",
    chainHead_v1_body |-> "getHeadBody", chainHead_v1_storage |-> "getHeadStorage", chainHead_v1_call |-> "callHead",
    chainHead_v1_unpin |-> "unpinHead", chainHead_v1_continue |-> "continueHead",
    chainHead_v1_stopOperation |-> "stopHeadOperation", chainSpec_v1_genesisHash |-> "getSpecGenesisHash",
    chainSpec_v1_chainName |-> "getSpecChainName", chainSpec_v1_properties |-> "getSpecProperties",
    transaction_v1_broadcast |-> "broadcastTransaction", transaction_v1_stop |-> "stopTransaction"])
    @@ Of("system", [checkIfReady |-> "featureSupported"])

\* renderer.ts (see ProductRenderer)
RendererFunctions == Of("renderer", [onRender |-> "render", subscribeActions |-> "actionSubscribe"])

-----------------------------------------------------------------------------
(* Signers                                                                  *)

\* getProductAccountSigner: a transaction, a signature over bytes, and the
\* mocked signature of a fee estimate, which of a v4 extrinsic is built here.
ProductSigner(type, what) ==
    CASE type = "signPayload" /\ what = "tx" -> <<"signing", "signPayload">>
      [] what = "bytes" -> <<"signing", "signRaw">>
      [] OTHER -> <<"signing", "createTransaction">>

\* getLegacyAccountSigner
LegacySigner(what) ==
    IF what = "tx" THEN <<"signing", "signPayloadWithLegacyAccount">>
    ELSE <<"signing", "signRawWithLegacyAccount">>

\* injectWeb3.ts: the signer of the extension.
InjectedSigner(what) ==
    CASE what = "bytes" -> <<"signing", "signRawWithLegacyAccount">>
      [] what = "unwatermarked" -> UnwatermarkedFunctions.ofLegacy
      [] what = "tx" -> <<"signing", "signPayloadWithLegacyAccount">>
      [] OTHER -> <<"signing", "createTransactionWithLegacyAccount">>

SignerTypes == {"signPayload", "createTransaction", "legacy", "injected"}

\* What a signer is asked: the version of a transaction, and whether it names
\* its signer and the genesis of its chain.
Signatures == [what : {"tx", "bytes", "mock", "unwatermarked", "create"},
               version : {0, 5}, complete : BOOLEAN]

Signer(type, s) ==
    CASE type = "legacy" -> LegacySigner(s.what)
      [] type = "injected" -> InjectedSigner(s.what)
      [] OTHER -> ProductSigner(type, s.what)

Offers(type, s) ==
    CASE type = "legacy" -> s.what \in {"tx", "bytes"}
      [] type = "injected" -> s.what # "mock"
      [] type = "signPayload" -> s.what \in {"tx", "bytes"}
      [] OTHER -> s.what \in {"tx", "bytes", "mock"}

\* A v4 extrinsic is mocked without the host.
MockedLocally(type, s) == type = "createTransaction" /\ s.what = "mock" /\ s.version = 0

\* The extension refuses a transaction it could not route to an account.
RefusedLocally(type, s) == type = "injected" /\ s.what = "create" /\ ~s.complete

-----------------------------------------------------------------------------

WrapperTables == {
    AccountFunctions, ProofFunctions, ConnectionFunctions, UnwatermarkedFunctions, ChatFunctions, CoinFunctions, PaymentFunctions, StorageFunctions,
    StatementFunctions, NotificationFunctions, PreimageFunctions, PocketFunctions, WorkerFunctions,
    SystemFunctions, PermissionFunctions, ContactFunctions, EntropyFunctions, ThemeFunctions, LocaleFunctions,
    ChainFunctions, RendererFunctions}

WrappedMethods ==
    (UNION {{table[f] : f \in DOMAIN table} : table \in WrapperTables})
    \cup {Signer(type, s) : type \in SignerTypes, s \in Signatures}

\* What a product reaches only through the host API itself.
Unwrapped == {
    <<"system", "handshake">>, <<"system", "navigateTo">>, <<"chain", "getChainInfo">>,
    <<"resourceAllocation", "request">>, <<"statementStore", "createProofAuthorized">>}
=============================================================================
