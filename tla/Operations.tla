------------------------------ MODULE Operations ------------------------------
(***************************************************************************)
(* The methods that build an operation of the chain and hand it to         *)
(* finalizeOp, and those that use the memo key, each as the script of what *)
(* it does.  They belong to Account, Comment, Market, Witness, Community,  *)
(* RC, Memo, Message, ImageUploader and the chain instance.                *)
(*                                                                         *)
(* The arguments are abstract: what depends on them is an alternative.     *)
(***************************************************************************)
EXTENDS Steps

\* The account given, which is looked up, or the object itself.
Given == Optional(Look)

\* One operation by one signer.
Send(op, role) == Finalize(<<op>>, role)

-----------------------------------------------------------------------------
\* blockchaininstance/core.py

\* Signed by the first of required_auths or else of required_posting_auths.
CustomJsonActive == Look \o Send("custom_json_active", "active")
CustomJsonPosting == Look \o Send("custom_json", "posting")
CustomJson == Demand \o Either(CustomJsonActive, CustomJsonPosting)

ClaimAccount == Default \o Look \o Send("claim_account", "active")

\* What creating and changing an account have in common: the name must be free; a
\* password gives keys, which are stored first (storekeys=True); other accounts with
\* authority are looked up.
FreeName == Demand \o Look \o Demand
StoreKeys(add) == Unless("nobroadcast", add)
OtherAccounts == Several(Look)

CreateClaimed(keys) ==
    Default \o FreeName \o Look \o keys \o OtherAccounts
    \o Either(Send("create_claimed_account", "active"),
              Finalize(<<"claim_account", "create_claimed_account">>, "active"))
CreateAccount(keys) ==
    Default \o FreeName \o Look \o keys \o OtherAccounts \o Look
    \o Send("account_create", "active")
CreateWithPassword == Either(CreateClaimed(StoreKeys(AddCreated)), CreateAccount(StoreKeys(AddCreated)))
CreateWithKeys == Either(CreateClaimed(Demand), CreateAccount(Demand))

\* The keys derived from a password are stored before they are sent, but not the
\* owner key, unless it is asked for.
UpdateAccount ==
    Demand \o Look
    \o Either(Derive \o StoreKeys(Optional(AddFresh("owner")) \o AddFresh("active")
                                  \o AddFresh("memo") \o AddFresh("posting")),
              Demand)
    \o OtherAccounts \o Send("update_keys", "owner")

\* By a builder of its own, with the key that the caller gives.
WitnessSetProperties == Look \o Demand \o SendOwn(<<"witness_set_properties">>, "active")
WitnessUpdate == Default \o Look \o Demand \o Send("witness_update", "active")
UpdateProposalVotes == Default \o Look \o Send("update_proposal_votes", "active")

\* The operations of a post are one transaction.  A beneficiary is tested before
\* anything is appended.
BuildCommentOptions == Demand
Post ==
    Demand \o Default \o Look
    \o Either(Either(Send("comment", "posting"), Finalize(<<"comment", "vote">>, "posting")),
              BuildCommentOptions
              \o Either(Finalize(<<"comment", "comment_options">>, "posting"),
                        Finalize(<<"comment", "comment_options", "vote">>, "posting")))
Vote == Default \o Look \o Demand \o Send("vote", "posting")
CommentOptions ==
    Default \o Look \o Demand \o BuildCommentOptions \o Send("comment_options", "posting")

-----------------------------------------------------------------------------
\* comment/operations.py: not on a post that was paid out

UpVote == Demand \o Vote
DownVote == Demand \o Vote
VoteOn == Vote

\* Without a change nothing is posted.
Edit == Optional(Post)
Reply == Post
Delete == Default \o Look \o Demand \o Send("delete_comment", "posting")
Reblog == Default \o Look \o Demand \o CustomJsonPosting

-----------------------------------------------------------------------------
\* account/operations.py

MarkNotificationsAsRead == Demand \o Optional(Look \o Demand) \o CustomJsonPosting
VerifyAccountAuthority == Demand \o Look
Follow == Demand \o CustomJsonPosting
Mute == Follow
Unfollow == Follow

UpdateAccountMetadata == Given \o Demand \o Send("account_update", "active")

\* The account given is looked up, and then the profile of the object is changed.
UpdateAccountProfile == Given \o Demand \o UpdateAccountMetadata
UpdateAccountJsonMetadata ==
    Given \o Optional(Look) \o Demand \o Send("account_update2", "posting")
ApproveWitness == Given \o Send("account_witness_vote", "active")
DisapproveWitness == ApproveWitness

SetProxy == Given \o Send("account_witness_proxy", "active")
UpdateMemoKey == Given \o Demand \o Send("update_memo_key", "active")

\* The keys derived from the password are not stored.
UpdateAccountKeys == Given \o Send("update_keys", "owner")
ChangeRecoveryAccount == Given \o Look \o Send("change_recovery_account", "owner")

\* A memo that starts with # is encrypted with the own memo key.
EncryptMemo == Several(Look) \o Optional(UseKey("memo") \o Demand)
Transfer == Given \o Demand \o Given \o Optional(EncryptMemo) \o Send("transfer", "active")
RecurringTransfer ==
    Given \o Demand \o Given \o Optional(EncryptMemo) \o Send("recurring_transfer", "active")
CheckAmount == Demand
TransferToVesting == Given \o CheckAmount \o Given \o Send("transfer_to_vesting", "active")
Convert == Given \o CheckAmount \o Send("convert", "active")
CollateralizedConvert == Given \o CheckAmount \o Send("collateralized_convert", "active")
TransferToSavings == Demand \o Given \o Demand \o Given \o Send("transfer_to_savings", "active")
TransferFromSavings ==
    Demand \o Given \o Given \o Demand \o Send("transfer_from_savings", "active")
CancelTransferFromSavings == Given \o Send("cancel_transfer_from_savings", "active")
ClaimRewardBalance ==
    Given \o CheckAmount \o CheckAmount \o CheckAmount \o Send("claim_reward_balance", "posting")
DelegateVestingShares ==
    Given \o Look \o Demand \o CheckAmount \o Send("delegate_vesting_shares", "active")
WithdrawVesting == Given \o CheckAmount \o Send("withdraw_vesting", "active")
SetWithdrawVestingRoute == Given \o Send("set_withdraw_vesting_route", "active")

\* The foreign key or account, the threshold, and the key of the role that is changed.
Permission(tested) ==
    Given \o Demand \o Optional(Look) \o tested
    \o Either(Send("update_owner", "owner"), Send("account_update", "active"))
Allow == Permission(Demand)
Disallow == Permission(Demand)

-----------------------------------------------------------------------------
\* market/core.py

Buy == Default \o Look \o Demand \o Send("limit_order_create", "active")
Sell == Default \o Look \o Demand \o Send("limit_order_create", "active")

\* returnOrderId: the number is taken from the answer, after the order was sent.
OrderId(order) == order \o Demand
Cancel ==
    Default \o Look
    \o Either(Send("limit_order_cancel", "active"),
              Finalize(<<"limit_order_cancel", "limit_order_cancel">>, "active"))

-----------------------------------------------------------------------------
\* witness/core.py

FeedPublish == Demand \o Look \o Demand \o Send("feed_publish", "active")
UpdateWitness == WitnessUpdate

-----------------------------------------------------------------------------
\* community/core.py: the arguments are tested, then the connection

CommunityAction == Demand \o Connect \o CustomJsonPosting
SetRole == CommunityAction
SetUserTitle == CommunityAction
MutePost == CommunityAction
UnmutePost == CommunityAction
UpdateProps == CommunityAction
Subscribe == CommunityAction
PinPost == CommunityAction
Unsubscribe == CommunityAction
UnpinPost == CommunityAction
FlagPost == CommunityAction

-----------------------------------------------------------------------------
\* rc/core.py

SetSlotDelegator == CustomJsonActive
DelegateFromPool == CustomJsonActive
DelegateToPool == CustomJsonActive

-----------------------------------------------------------------------------
\* memo/core.py, memo/message.py, utils/media.py: what the memo key and any posting key
\* are used for.

EncryptBinary == Demand \o Several(Look) \o UseKey("memo")

\* With the own memo key, or that of the sender when he is in the wallet.
DecryptMemo == Several(Look) \o Optional(UseKey("memo") \o Demand)
DecryptBinary == Demand \o Several(Look) \o UseKey("memo") \o Demand

SignMessage == Demand \o Look \o Demand \o UseKey("memo")

\* Each format is tried in turn.
VerifyMessage == Try(Demand \o Look \o Demand) \o Demand \o Optional(Look) \o Demand
Upload == Look \o UseKey("posting") \o Demand

-----------------------------------------------------------------------------
Methods ==
    {CustomJsonActive, CustomJsonPosting, CustomJson, ClaimAccount, CreateWithPassword,
     CreateWithKeys, UpdateAccount, WitnessSetProperties, WitnessUpdate,
     UpdateProposalVotes, Post, Vote, CommentOptions, UpVote, DownVote, VoteOn, Edit,
     Reply, Delete, Reblog, MarkNotificationsAsRead, VerifyAccountAuthority, Follow,
     Mute, Unfollow, UpdateAccountMetadata, UpdateAccountProfile,
     UpdateAccountJsonMetadata, ApproveWitness, DisapproveWitness, SetProxy,
     UpdateMemoKey, UpdateAccountKeys, ChangeRecoveryAccount, EncryptMemo, Transfer,
     RecurringTransfer, TransferToVesting, Convert, CollateralizedConvert,
     TransferToSavings, TransferFromSavings, CancelTransferFromSavings,
     ClaimRewardBalance, DelegateVestingShares, WithdrawVesting,
     SetWithdrawVestingRoute, Allow, Disallow, Buy, Sell, Cancel, FeedPublish,
     UpdateWitness, SetRole, SetUserTitle, MutePost, UnmutePost, UpdateProps,
     Subscribe, PinPost, Unsubscribe, UnpinPost, FlagPost, SetSlotDelegator,
     DelegateFromPool, DelegateToPool, EncryptBinary, DecryptMemo, DecryptBinary,
     SignMessage, VerifyMessage, Upload,
     OrderId(Buy)}
================================================================================
