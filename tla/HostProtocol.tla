---------------------------- MODULE HostProtocol ----------------------------
(* The tables of the host API: the wire protocol of the host-api package,  *)
(* the error a product sees when a call fails below the domain layer, and  *)
(* what the host container serves.  A method is a pair <<trait, name>>.    *)
EXTENDS Naturals, FiniteSets, TLC

\* A method: its wire id and the error type of each version's last leg.
Request(id, error) == [kind |-> "request", id |-> id, error |-> [v1 |-> error], internal |-> FALSE]
Versions(id, v1, v2) == [Request(id, v1) EXCEPT !.error = [v1 |-> v1, v2 |-> v2]]
Internal(id, error) == [Request(id, error) EXCEPT !.internal = TRUE]
Subscription(id, error) ==
    [kind |-> "subscription", id |-> id, error |-> [v1 |-> error], initiator |-> "product"]
HostSubscription(id, error) == [Subscription(id, error) EXCEPT !.initiator = "host"]

Trait(id, methods) == [id |-> id, methods |-> methods]

SystemTrait == Trait(1, [
    handshake |-> Request(0, "HandshakeErr"), featureSupported |-> Request(1, "GenericError"),
    navigateTo |-> Request(2, "NavigateToErr"), info |-> Request(3, "GenericError"),
    getProductContext |-> Request(4, "GenericError")])

AccountTrait == Trait(2, [
    connectionStatusSubscribe |-> Subscription(0, "GenericError"),
    getAccount |-> Request(1, "RequestCredentialsErr"), getAccountAlias |-> Request(2, "GetAliasErr"),
    createAccountProof |-> Request(3, "CreateProofErr"),
    getLegacyAccounts |-> Request(4, "RequestCredentialsErr"), getUserId |-> Request(5, "GetUserIdErr"),
    requestLogin |-> Request(6, "LoginErr"), signVrf |-> Request(7, "SignVrfErr"),
    registerRingVrfKey |-> Request(8, "RegisterRingVrfKeyErr"),
    listRingVrfKeys |-> Request(9, "ListRingVrfKeysErr"), ringVrfSign |-> Request(10, "RingVrfSignErr")])

ChainTrait == Trait(3, [
    followHeadSubscribe |-> Subscription(0, "GenericError"),
    getHeadHeader |-> Request(1, "GenericError"), getHeadBody |-> Request(2, "GenericError"),
    getHeadStorage |-> Request(3, "GenericError"), callHead |-> Request(4, "GenericError"),
    unpinHead |-> Request(5, "GenericError"), continueHead |-> Request(6, "GenericError"),
    stopHeadOperation |-> Request(7, "GenericError"), getSpecGenesisHash |-> Request(8, "GenericError"),
    getSpecChainName |-> Request(9, "GenericError"), getSpecProperties |-> Request(10, "GenericError"),
    broadcastTransaction |-> Request(11, "GenericError"), stopTransaction |-> Request(12, "GenericError"),
    getChainInfo |-> Request(13, "ChainInfoErr")])

ChatTrait == Trait(4, [
    createRoom |-> Request(0, "ChatRoomRegistrationErr"), registerBot |-> Request(1, "ChatBotRegistrationErr"),
    listSubscribe |-> Subscription(2, "GenericError"), postMessage |-> Request(3, "ChatMessagePostingErr"),
    actionSubscribe |-> Subscription(4, "GenericError")])

CoinPaymentTrait == Trait(5, [
    createPurse |-> Request(0, "CoinPaymentErr"), queryPurse |-> Request(1, "CoinPaymentErr"),
    rebalancePurse |-> Subscription(2, "CoinPaymentErr"), deletePurse |-> Subscription(3, "CoinPaymentErr"),
    createReceivable |-> Request(4, "CoinPaymentErr"), createCheque |-> Request(5, "CoinPaymentErr"),
    deposit |-> Subscription(6, "CoinPaymentErr"), refund |-> Subscription(7, "CoinPaymentErr"),
    listenForPayment |-> Subscription(8, "CoinPaymentErr")])

\* entropy, localStorage, notifications, payment
StorageTraits == [
    entropy |-> Trait(6, [derive |-> Request(0, "DeriveEntropyErr")]),
    localStorage |-> Trait(7, [
        read |-> Versions(0, "StorageErr", "StorageReadV2Err"), write |-> Request(1, "StorageErr"),
        clear |-> Request(2, "StorageErr"), subscribe |-> Subscription(3, "GenericError")]),
    notifications |-> Trait(8, [
        sendPushNotification |-> Request(0, "PushNotificationError"),
        cancelPushNotification |-> Request(1, "GenericError")]),
    payment |-> Trait(9, [
        balanceSubscribe |-> Subscription(0, "PaymentBalanceErr"), topUp |-> Request(1, "PaymentTopUpErr"),
        request |-> Request(2, "PaymentRequestErr"), statusSubscribe |-> Subscription(3, "PaymentStatusErr"),
        topUpStatusSubscribe |-> Subscription(4, "PaymentTopUpStatusErr")])]

\* permissions, preimage, resourceAllocation, signing
SigningTraits == [
    permissions |-> Trait(10, [
        requestDevicePermission |-> Request(0, "GenericError"),
        requestRemotePermission |-> Request(1, "GenericError"),
        authorizeRemotePermission |-> Internal(2, "GenericError"),
        authorizeDevicePermission |-> Internal(3, "GenericError")]),
    preimage |-> Trait(11, [
        lookupSubscribe |-> Subscription(0, "GenericError"), submit |-> Request(1, "PreimageSubmitErr")]),
    resourceAllocation |-> Trait(12, [request |-> Request(0, "ResourceAllocationErr")]),
    signing |-> Trait(13, [
        createTransaction |-> Request(0, "CreateTransactionErr"),
        createTransactionWithLegacyAccount |-> Request(1, "CreateTransactionErr"),
        signRawWithLegacyAccount |-> Request(2, "SigningErr"),
        signPayloadWithLegacyAccount |-> Request(3, "SigningErr"),
        signRaw |-> Request(4, "SigningErr"), signPayload |-> Request(5, "SigningErr"),
        signRawUnwatermarkedDeprecated |-> Request(6, "SigningErr"),
        signRawUnwatermarkedDeprecatedWithLegacyAccount |-> Request(7, "SigningErr")])]

\* statementStore, theme, locale, renderer, pocket, worker, contacts
StatementTraits == [
    statementStore |-> Trait(14, [
        subscribe |-> Subscription(0, "GenericError"), createProof |-> Request(1, "StatementProofErr"),
        submit |-> Request(2, "GenericError"), createProofAuthorized |-> Request(3, "StatementProofErr")]),
    theme |-> Trait(15, [subscribe |-> Subscription(0, "GenericError")]),
    locale |-> Trait(16, [subscribe |-> Subscription(0, "GenericError")]),
    renderer |-> Trait(17, [
        render |-> HostSubscription(0, "GenericError"), actionSubscribe |-> Subscription(1, "GenericError")]),
    pocket |-> Trait(18, [
        listSubscribe |-> Subscription(0, "GenericError"), removeCard |-> Request(1, "PocketRemoveCardErr")]),
    worker |-> Trait(19, [
        beginOperation |-> Request(0, "WorkerErr"), endOperation |-> Request(1, "WorkerErr")]),
    contacts |-> Trait(20, [pick |-> Request(0, "ContactsPickErr")])]

HostApiProtocol ==
    [system |-> SystemTrait, account |-> AccountTrait, chain |-> ChainTrait, chat |-> ChatTrait,
     coinPayment |-> CoinPaymentTrait, entropy |-> StorageTraits.entropy,
     localStorage |-> StorageTraits.localStorage, notifications |-> StorageTraits.notifications,
     payment |-> StorageTraits.payment, permissions |-> SigningTraits.permissions,
     preimage |-> SigningTraits.preimage, resourceAllocation |-> SigningTraits.resourceAllocation,
     signing |-> SigningTraits.signing, statementStore |-> StatementTraits.statementStore,
     theme |-> StatementTraits.theme, locale |-> StatementTraits.locale,
     renderer |-> StatementTraits.renderer, pocket |-> StatementTraits.pocket,
     worker |-> StatementTraits.worker, contacts |-> StatementTraits.contacts]

MethodsOf(t) == {<<t, m>> : m \in DOMAIN HostApiProtocol[t].methods}
Methods == UNION {MethodsOf(t) : t \in DOMAIN HostApiProtocol}
Definition(a) == HostApiProtocol[a[1]].methods[a[2]]

\* The type of the domain error of a method, for the version of a call.
DomainError(a, tag) == Definition(a).error[tag]

AddressKey(a) == 256 * HostApiProtocol[a[1]].id + Definition(a).id

ProductRequests == {a \in Methods : Definition(a).kind = "request" /\ ~Definition(a).internal}
ProductSubscriptions ==
    {a \in Methods : Definition(a).kind = "subscription" /\ Definition(a).initiator = "product"}

-----------------------------------------------------------------------------
(* hostApi.ts: what a request that fails below the domain layer folds into *)

GenericFallback == {
    <<"system", "featureSupported">>, <<"system", "info">>, <<"system", "getProductContext">>,
    <<"notifications", "cancelPushNotification">>, <<"permissions", "requestDevicePermission">>,
    <<"permissions", "requestRemotePermission">>, <<"statementStore", "submit">>}
    \cup ({"chain"} \X {"getHeadHeader", "getHeadBody", "getHeadStorage", "callHead", "unpinHead",
                        "continueHead", "stopHeadOperation", "getSpecGenesisHash", "getSpecChainName",
                        "getSpecProperties", "broadcastTransaction", "stopTransaction"})

NamedFallback ==
    [a \in {"signing"} \X {"signRawWithLegacyAccount", "signPayloadWithLegacyAccount", "signRaw", "signPayload",
                           "signRawUnwatermarkedDeprecated",
                           "signRawUnwatermarkedDeprecatedWithLegacyAccount"} |-> "SigningErr"]
    @@ [a \in {"signing"} \X {"createTransaction", "createTransactionWithLegacyAccount"} |-> "CreateTransactionErr"]
    @@ [a \in {"coinPayment"} \X {"createPurse", "queryPurse", "createReceivable", "createCheque"}
          |-> "CoinPaymentErr"]
    @@ [a \in {"localStorage"} \X {"write", "clear"} |-> "StorageErr"]
    @@ [a \in {"statementStore"} \X {"createProof", "createProofAuthorized"} |-> "StatementProofErr"]
    @@ [a \in {"worker"} \X {"beginOperation", "endOperation"} |-> "WorkerErr"]
    @@ [a \in {"account"} \X {"getAccount", "getLegacyAccounts"} |-> "RequestCredentialsErr"]
    @@ <<"system", "handshake">> :> "HandshakeErr" @@ <<"system", "navigateTo">> :> "NavigateToErr"
    @@ <<"account", "getAccountAlias">> :> "GetAliasErr" @@ <<"account", "createAccountProof">> :> "CreateProofErr"
    @@ <<"account", "getUserId">> :> "GetUserIdErr" @@ <<"account", "requestLogin">> :> "LoginErr"
    @@ <<"account", "signVrf">> :> "SignVrfErr"
    @@ <<"account", "registerRingVrfKey">> :> "RegisterRingVrfKeyErr"
    @@ <<"account", "listRingVrfKeys">> :> "ListRingVrfKeysErr" @@ <<"account", "ringVrfSign">> :> "RingVrfSignErr"
    @@ <<"chain", "getChainInfo">> :> "ChainInfoErr" @@ <<"chat", "createRoom">> :> "ChatRoomRegistrationErr"
    @@ <<"chat", "registerBot">> :> "ChatBotRegistrationErr"
    @@ <<"chat", "postMessage">> :> "ChatMessagePostingErr" @@ <<"entropy", "derive">> :> "DeriveEntropyErr"
    @@ <<"notifications", "sendPushNotification">> :> "PushNotificationError"
    @@ <<"payment", "topUp">> :> "PaymentTopUpErr" @@ <<"payment", "request">> :> "PaymentRequestErr"
    @@ <<"preimage", "submit">> :> "PreimageSubmitErr"
    @@ <<"resourceAllocation", "request">> :> "ResourceAllocationErr"
    @@ <<"pocket", "removeCard">> :> "PocketRemoveCardErr" @@ <<"contacts", "pick">> :> "ContactsPickErr"

FallbackError(a, tag) ==
    IF a = <<"localStorage", "read">> THEN IF tag = "v2" THEN "StorageReadV2Err" ELSE "StorageErr"
    ELSE IF a \in GenericFallback THEN "GenericError"
    ELSE NamedFallback[a]

HasFallback(a) ==
    a = <<"localStorage", "read">> \/ a \in GenericFallback \/ a \in DOMAIN NamedFallback

-----------------------------------------------------------------------------
(* The wrapper: what the interrupt of a subscription folds into            *)

SubscriptionFallbackGeneric(a) == "GenericError"   \* mutant: one fallback for all

SubscriptionFallback(a) ==
    CASE a[1] = "coinPayment" -> "CoinPaymentErr"
      [] a = <<"payment", "balanceSubscribe">> -> "PaymentBalanceErr"
      [] a = <<"payment", "statusSubscribe">> -> "PaymentStatusErr"
      [] a = <<"payment", "topUpStatusSubscribe">> -> "PaymentTopUpStatusErr"
      [] OTHER -> "GenericError"

-----------------------------------------------------------------------------
(* createContainer.ts: the slots                                           *)

ServedBy(t, names) == {t} \X names

RequestSlots ==
    ServedBy("system", {"featureSupported", "navigateTo", "info", "getProductContext"})
    \cup ServedBy("account", {"getAccount", "getAccountAlias", "createAccountProof", "getLegacyAccounts",
                              "getUserId", "requestLogin", "signVrf", "registerRingVrfKey",
                              "listRingVrfKeys", "ringVrfSign"})
    \cup ServedBy("chain", {"getHeadHeader", "getHeadBody", "getHeadStorage", "callHead", "unpinHead",
                            "continueHead", "stopHeadOperation", "getSpecGenesisHash", "getSpecChainName",
                            "getSpecProperties", "broadcastTransaction", "stopTransaction", "getChainInfo"})
    \cup ServedBy("chat", {"createRoom", "registerBot", "postMessage"})
    \cup ServedBy("coinPayment", {"createPurse", "queryPurse", "createReceivable", "createCheque"})
    \cup ServedBy("entropy", {"derive"}) \cup ServedBy("localStorage", {"read", "write", "clear"})
    \cup ServedBy("notifications", {"sendPushNotification", "cancelPushNotification"})
    \cup ServedBy("payment", {"topUp", "request"})
    \cup ServedBy("permissions", {"requestDevicePermission", "requestRemotePermission",
                                  "authorizeRemotePermission", "authorizeDevicePermission"})
    \cup ServedBy("preimage", {"submit"}) \cup ServedBy("resourceAllocation", {"request"})
    \cup ServedBy("signing", {"createTransaction", "createTransactionWithLegacyAccount",
                              "signRawWithLegacyAccount", "signPayloadWithLegacyAccount", "signRaw",
                              "signPayload", "signRawUnwatermarkedDeprecated",
                              "signRawUnwatermarkedDeprecatedWithLegacyAccount"})
    \cup ServedBy("statementStore", {"createProof", "submit", "createProofAuthorized"})
    \cup ServedBy("pocket", {"removeCard"}) \cup ServedBy("worker", {"beginOperation", "endOperation"})
    \cup ServedBy("contacts", {"pick"})

SubscriptionSlots ==
    ServedBy("account", {"connectionStatusSubscribe"}) \cup ServedBy("chain", {"followHeadSubscribe"})
    \cup ServedBy("chat", {"listSubscribe", "actionSubscribe"})
    \cup ServedBy("coinPayment", {"rebalancePurse", "deletePurse", "deposit", "refund", "listenForPayment"})
    \cup ServedBy("localStorage", {"subscribe"})
    \cup ServedBy("payment", {"balanceSubscribe", "statusSubscribe", "topUpStatusSubscribe"})
    \cup ServedBy("preimage", {"lookupSubscribe"}) \cup ServedBy("statementStore", {"subscribe"})
    \cup ServedBy("theme", {"subscribe"}) \cup ServedBy("locale", {"subscribe"})
    \cup ServedBy("renderer", {"actionSubscribe"}) \cup ServedBy("pocket", {"listSubscribe"})

\* The permission method a gated slot asks, and the error of a denied call.
GateOf(a) ==
    CASE a[1] = "notifications" -> <<"permissions", "requestDevicePermission">>
      [] a \in {<<"preimage", "submit">>, <<"statementStore", "submit">>}
           -> <<"permissions", "requestRemotePermission">>
      [] OTHER -> <<>>

DenialError(a) ==
    CASE a = <<"notifications", "sendPushNotification">> -> "PushNotificationError"
      [] a = <<"preimage", "submit">> -> "PreimageSubmitErr"
      [] OTHER -> "GenericError"

\* What a subscription slot without a handler interrupts with.
DefaultInterrupt(a) ==
    CASE a[1] = "coinPayment" -> "CoinPaymentErr"
      [] a = <<"payment", "balanceSubscribe">> -> "PaymentBalanceErr"
      [] a = <<"payment", "statusSubscribe">> -> "PaymentStatusErr"
      [] a = <<"payment", "topUpStatusSubscribe">> -> "PaymentTopUpStatusErr"
      [] OTHER -> "Unsupported"
=============================================================================
