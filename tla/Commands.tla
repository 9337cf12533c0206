------------------------------- MODULE Commands -------------------------------
(***************************************************************************)
(* The commands of the command line (nectar/cli), each as the script of    *)
(* what it does with the wallet, the configuration and the chain.  Several *)
(* commands may be given on one command line (chain=True): a command that  *)
(* returns early leaves the others to run, one that raises ends them all.  *)
(***************************************************************************)
EXTENDS Steps

Op == INSTANCE Operations

\* How most commands begin: those that read, and those that sign.
Read == Connect \o Default \o Look
Begin == Connect \o Default \o Unlock \o Look

-----------------------------------------------------------------------------
\* cli/utils.py

Set == Either(Connect, Optional(SetNodes))
NextNode == Connect \o Rotate \o Check \o Look \o Look \o Rotate \o Look
PingNode == Connect \o Look
About == Nothing
CurrentNode == Connect \o Rotate \o Look
UpdateNodes == Connect \o Look \o Demand \o Optional(Reconnect \o Connect)
Config == Demand
Sign == Connect \o Unlock \o Demand \o SignFile
Broadcast == Connect \o Demand \o BroadcastFile

\* With --follow, until it is interrupted.
Stream == Connect \o Look
Verify == Connect \o Look \o Try(Look) \o Look
ChainConfig == Connect \o Look
Info == Connect \o Look \o Check
UserData == Connect
FeatureFlags == Connect
Draw == Connect \o Default \o Either(Unlock \o Look \o Look \o Demand \o Op!Reply, Look \o Demand)
CustomJson == Check \o Connect \o Default \o Unlock \o Look \o Op!CustomJson

-----------------------------------------------------------------------------
\* cli/wallet.py

\* The old wallet is wiped before the new password is asked for; when that is empty
\* the command ends there.
CreateWallet == Connect \o Either(Check \o Wipe, Optional(Wipe)) \o Demand \o Check \o Wipe \o Create

\* The outcome of the first unlock_wallet is not looked at.
WalletInfo == Connect \o Either(Lock, Optional(UnlockAnyway)) \o Demand \o Optional(UnlockAnyway)
ParseWif == Connect \o Several(Try(Demand \o Look))
ImportKey(role) == Connect \o UnlockStrict \o Demand \o AddKey(role)
DelKey == Demand \o Connect \o UnlockStrict \o DeleteKey
KeyGen == Optional(Connect \o Look) \o Demand
PasswordGen == Demand
ListKeys == Connect \o Optional(Look)
ChangeWalletPassphrase == Connect \o UnlockStrict \o Demand \o Check \o Demand \o ChangePassword
Message == Connect \o Default \o Check \o Demand \o Either(Op!VerifyMessage, Unlock \o Op!SignMessage)
Decrypt ==
    Check \o Connect \o Default \o Look \o Unlock
    \o Several(Either(Op!DecryptMemo, Op!DecryptBinary) \o Demand \o Check)
Encrypt ==
    Check \o Connect \o Default \o Look \o Unlock
    \o Several(Either(Op!EncryptMemo, Op!EncryptBinary) \o Check)

-----------------------------------------------------------------------------
\* cli/post.py

\* A vote on a post that was paid out is not cast, and the command ends well.
UpVote == Connect \o Demand \o Default \o Unlock \o Look \o Optional(Op!UpVote)
Delete == Begin \o Optional(Op!Delete)
DownVote == Connect \o Demand \o Default \o Unlock \o Look \o Optional(Op!DownVote)

\* The images of the text are uploaded before anything else is known to be in order,
\* and also with --no-broadcast.
Post ==
    Connect \o Demand \o Unlock \o Demand \o Several(Look) \o Optional(Try(Look))
    \o Unless("unsigned", Several(Op!Upload)) \o Optional(Try(Look))
    \o Demand \o Optional(Check) \o Op!Post
Reply == Connect \o Default \o Unlock \o Op!Post
Reblog == Begin \o Op!Reblog
UploadImage == Connect \o Default \o Unlock \o Op!Upload
Download == Read
CreatePost == Connect \o Several(Try(Look) \o Demand)

-----------------------------------------------------------------------------
\* cli/market.py

Transfer == Begin \o Op!Transfer
PowerUp == Begin \o Op!TransferToVesting
PowerDown == Begin \o Op!WithdrawVesting
Delegate == Begin \o Look \o Op!DelegateVestingShares
ListDelegations == Read
PowerDownRoute == Begin \o Op!SetWithdrawVestingRoute

\* With a builder of its own, and the owner key asked for.
ChangeRecovery ==
    Connect \o Default \o Look \o Look
    \o Unless("unsigned", Demand \o SendOwn(<<"change_recovery_account">>, "owner"))
    \o When("unsigned", ExportOwn)
Convert == Begin \o Op!Convert

\* The price is looked up and shown, when it is not given.
Buy == Connect \o Default \o Optional(Look \o Demand \o Check) \o Unlock \o Look \o Op!Buy
Sell == Connect \o Default \o Optional(Look \o Demand \o Check) \o Unlock \o Look \o Op!Sell
Cancel == Begin \o Op!Cancel
OpenOrders == Read

-----------------------------------------------------------------------------
\* cli/account.py: commands that read

Power == Read
Balance == Read
Interest == Read
FollowList == Read
Follower == Read
Following == Read
Muter == Read
Muting == Read
Permissions == Read
ListAccounts == Connect \o Look
Witness == Connect \o Look
Witnesses == Connect \o Look
Votes == Read
Curation == Read
Rewards == Read \o Try(Look)
Pending == Read \o Try(Look)
History == Read

-----------------------------------------------------------------------------
\* cli/account.py: commands that send

\* Only what is to be marked needs the wallet.
Notifications ==
    Connect \o Default
    \o Either(Look, Unlock \o Look \o Look \o Op!MarkNotificationsAsRead)
Allow == Connect \o Default \o Unlock \o Check \o Look \o Demand \o Op!Allow
Disallow == Connect \o Default \o Unlock \o Check \o Look \o Demand \o Op!Disallow

\* Without a fee one account after the other is claimed, as long as the resource
\* credits last (here: two).
ClaimAccount == Begin \o Either(Op!ClaimAccount, Look \o Several(Op!ClaimAccount \o Look))

\* The wallet is not unlocked.  The owner key that the user gives stays in it.
ChangeKeys ==
    Connect \o Look \o Demand
    \o Unless("unsigned", Demand \o AddKey("owner"))
    \o Op!UpdateAccount

NewAccount ==
    Begin \o Either(Demand \o Op!CreateWithKeys, Check \o Op!CreateWithPassword)
SetProfile == Connect \o Demand \o Default \o Unlock \o Look \o Op!UpdateAccountProfile
DelProfile == Begin \o Demand \o Op!UpdateAccountProfile

\* Each key that fits is added, until one is known already.
ImportAccount ==
    Connect \o Unlock \o Look \o Check \o Demand
    \o Optional(AddKey("owner")) \o Optional(AddKey("active"))
    \o Optional(AddKey("posting")) \o Optional(AddKey("memo"))

\* A memo key that is derived here is stored first.
UpdateMemoKey ==
    Begin \o Optional(Derive \o Unless("nobroadcast", AddFresh("memo"))) \o Op!UpdateMemoKey

Beneficiaries == Connect \o Look \o Unlock \o Look \o Op!CommentOptions
ApproveWitness == Begin \o Op!ApproveWitness
DisapproveWitness == Begin \o Op!DisapproveWitness
SetProxy == Begin \o Op!SetProxy
DelProxy == Begin \o Op!SetProxy
WitnessUpdate == Begin \o Op!WitnessUpdate
WitnessDisable == Begin \o Check \o Op!WitnessUpdate
WitnessEnable == Begin \o Op!WitnessUpdate
WitnessCreate == Connect \o Unlock \o Op!WitnessUpdate

\* The key is given on the command line; the wallet is not asked.
WitnessProperties == Connect \o Demand \o Op!WitnessSetProperties
WitnessFeed ==
    Connect \o Either(Unlock \o Look \o Demand \o Op!FeedPublish,
                      Look \o Demand \o Op!WitnessSetProperties)
ClaimReward == Read \o Check \o Unlock \o Op!ClaimRewardBalance
Follow == Begin \o Op!Follow
Mute == Begin \o Op!Follow
Unfollow == Begin \o Op!Unfollow
UserDataOfAccount == Connect
FeatureFlagsOfAccount == Connect

-----------------------------------------------------------------------------
CommandLine ==
    {Set, NextNode, PingNode, About, CurrentNode, UpdateNodes, Config, Sign, Broadcast,
     Stream, Verify, ChainConfig, Info, UserData, FeatureFlags, Draw, CustomJson,
     CreateWallet, WalletInfo, ParseWif, DelKey, KeyGen, PasswordGen, ListKeys,
     ChangeWalletPassphrase, Message, Decrypt, Encrypt, UpVote, Delete, DownVote, Post,
     Reply, Reblog, UploadImage, Download, CreatePost, Transfer, PowerUp, PowerDown,
     Delegate, ListDelegations, PowerDownRoute, ChangeRecovery, Convert, Buy, Sell,
     Cancel, OpenOrders, Power, Balance, Interest, FollowList, Follower, Following,
     Muter, Muting, Permissions, ListAccounts, Witness, Witnesses, Votes, Curation,
     Rewards, Pending, History, Notifications, Allow, Disallow, ClaimAccount,
     ChangeKeys, NewAccount, SetProfile, DelProfile, ImportAccount, UpdateMemoKey,
     Beneficiaries, ApproveWitness, DisapproveWitness, SetProxy, DelProxy,
     WitnessUpdate, WitnessDisable, WitnessEnable, WitnessCreate, WitnessProperties,
     WitnessFeed, ClaimReward, Follow, Mute, Unfollow, UserDataOfAccount,
     FeatureFlagsOfAccount}
    \cup {ImportKey(role) : role \in {"owner", "active", "posting", "memo"}}
================================================================================
